---- MODULE Spec2Model ----
(***************************************************************************)
(* Poster layout and compositing engine of cmt-poster-generator.            *)
(*                                                                         *)
(* Several specifications share this module:                               *)
(*   SpecWrap     the text wrapping routines (pure functions of text, font  *)
(*                metric and maximum width);                                *)
(*   SpecGrid     the speaker grid planned by compose_poster;               *)
(*   SpecPhoto    the photo lookup of one speaker name;                     *)
(*   SpecCrop     the two cover-crop routines;                              *)
(*   SpecCity     extract_city_country;                                     *)
(*   SpecSpeakers parse_speakers_from_text;                                 *)
(*   SpecTemplate the speakers grid of PosterComposer;                      *)
(*   SpecCreds    speaker names and credentials of PosterGenerator;         *)
(*   SpecService  BaseService.initialize under concurrent callers;          *)
(*   SpecRate     the rate limiting dependency;                             *)
(*   Spec         one render request, served either by                      *)
(*                PosterGenerator.generate (app/poster/generator.py) or by  *)
(*                PosterComposer.generate_posters                           *)
(*                (app/services/poster_composer.py).                        *)
(***************************************************************************)
EXTENDS Integers, Sequences, FiniteSets, TLC

VARIABLES
    \* ---- text wrapping ----
    wtext,      \* the text handed to the wrapping routine (sequence of characters)
    wfont,      \* the font metric: advance of each character
    wmax,       \* max_width
    wran,       \* which wrapping routines have returned
    glines,     \* lines returned by wrap_text / draw_wrapped_text (generator.py)
    clines,     \* lines returned by PosterComposer._wrap_text
    \* ---- speaker grid of compose_poster ----
    gpc,        \* position in the grid section of compose_poster
    gn,         \* n = len(speaker_photos)
    gcursor,    \* y_cursor when the grid section is entered
    gsize,      \* circle_size
    grows,      \* rows
    grow,       \* the loop variable row
    gy,         \* y, the top of the current row
    gpositions, \* the circle positions assigned so far: [i, row, col, x, y]
    growSizes,  \* speakers_in_row of every row handled so far
    gbottom,    \* speaker_grid_bottom
    \* ---- one render request ----
    engine,     \* "generator" (PosterGenerator) or "composer" (PosterComposer)
    pc,         \* the stage the render is at
    outcome,    \* "none" while rendering, then "ok", "error" or "cancelled"
    failed_at,  \* the step whose exception ended the render, "none" otherwise
    landmark_url,   \* result of the landmark lookup: "url", "none" (no asset) or "unset"
    overlay_url,    \* result of the lookup of "overlay"
    background, \* what the canvas was built on: "none", "landmark" or "blank"
    overlay_applied,    \* the overlay was alpha-composited onto the canvas
    speaker_photos,     \* per speaker, the photo lookup result: "url" or "none"
    credentials,        \* per speaker, the credential line
    y_cursor,   \* y_cursor after the summary block
    si,         \* i, the index of the next speaker of the grid
    sy,         \* y, the top of the current grid row
    max_cred_y, \* max_cred_y
    speaker_grid_bottom,    \* speaker_grid_bottom
    circles,    \* circles drawn: [i, kind, src, x, y, size]; src is the index of
                \* the speaker_photos entry that was pasted
    captions,   \* credential blocks drawn: [i, top, bottom, name_lines, rest_lines]
    detail_ys,  \* the y of every event-detail line drawn
    footer_y,   \* the y of the register line, -1 before it is drawn
    uploads,    \* number of images uploaded for the request
    response,   \* the answer sent to the caller: [status, error_code, message]
    title_text,     \* title handed to compose_poster
    summary_text,   \* summary handed to compose_poster
    details_lines,  \* number of lines parsed from event_details
    calls,      \* how often compose_poster was called with these arguments
    first_canvas,   \* what the first of two calls drew, <<>> before
    \* ---- find_speaker_photo ----
    pname,      \* the speaker name looked up
    plib,       \* the media library: search key -> photo, "none" when no asset matches
    phash,      \* the order in which this process iterates a set of these keys
    presults,   \* what each lookup of pname returned
    \* ---- cover-crop ----
    cw, ch,     \* size of the source image
    ctw, cth,   \* target_size
    cran,       \* which crop routines have returned
    iwindow,    \* ImageService.crop_to_aspect: the crop box and the size returned
    rwindow,    \* PosterComposer._resize_and_crop: resized size, crop box, size returned
    \* ---- extract_city_country ----
    evenue,     \* venue
    etitle,     \* title
    eresult,    \* the (city, country) returned, <<>> before the call
    \* ---- parse_speakers_from_text ----
    stext,      \* speakers_text: its lines, each a sequence of words
    sleader,    \* community_leader: a sequence of words, <<>> when not given
    sresult,    \* the names of the speakers returned, in order
    sdone,      \* the function has returned
    \* ---- speakers grid of PosterComposer ----
    tpc,            \* position in _add_speakers_grid_template
    speaker_count,  \* len(speakers)
    layout,         \* the rows and cols returned by _calculate_speaker_layout
    cells,          \* the cells assigned so far: [i, row, col]
    \* ---- speaker names and credentials of PosterGenerator.generate ----
    kpc,            \* position in generate / the speaker loop of compose_poster
    speaker_lines,  \* the lines of the first extract_speakers_and_credentials answer
    speaker_names,  \* the names kept, each with the line it was taken from
    cred_lines,     \* credentials: the lines of the second answer
    kpairs,         \* per speaker handled so far: its name, its line and cred
    kerror,         \* "none" or the exception that ended the call
    \* ---- initialisation of a service ----
    service,        \* which service: the font singleton or a WordPressService
    _initialized,   \* BaseService._initialized
    _font_service,  \* the module global of font_service.py: "None" or "instance"
    ipc,            \* per task, where its initialize() call is
    body_runs,      \* how often _initialize was entered since the last cleanup
    body_done,      \* how often _initialize returned normally since the last cleanup
    cleanups,       \* how often cleanup() was called
    \* ---- the rate limiting dependency ----
    limiter,        \* "upstash" (UpstashRateLimiter) or "memory" (MemoryRateLimiter)
    rpc,            \* per request of one client, where its check_rate_limit call is
    zset,           \* Upstash: the members of the sorted set of the client key
    counters,       \* Memory: self.counters[key], the list of timestamps
    clock,          \* int(time.time())
    admitted        \* requests of the client let through in the window

wrapVars == <<wtext, wfont, wmax, wran, glines, clines>>
gridVars == <<gpc, gn, gcursor, gsize, grows, grow, gy, gpositions, growSizes, gbottom>>
renderVars == <<engine, pc, outcome, failed_at, landmark_url, overlay_url, background,
                overlay_applied, speaker_photos, credentials, y_cursor, si, sy, max_cred_y,
                speaker_grid_bottom, circles, captions, detail_ys, footer_y, uploads,
                response, title_text, summary_text, details_lines, calls, first_canvas>>
photoVars == <<pname, plib, phash, presults>>
cropVars == <<cw, ch, ctw, cth, cran, iwindow, rwindow>>
cityVars == <<evenue, etitle, eresult>>
speakerVars == <<stext, sleader, sresult, sdone>>
templateVars == <<tpc, speaker_count, layout, cells>>
credVars == <<kpc, speaker_lines, speaker_names, cred_lines, kpairs, kerror>>
serviceVars == <<service, _initialized, _font_service, ipc, body_runs, body_done, cleanups>>
rateVars == <<limiter, rpc, zset, counters, clock, admitted>>
vars == <<wrapVars, gridVars, renderVars, photoVars, cropVars, cityVars, speakerVars, templateVars, credVars, serviceVars, rateVars>>

-----------------------------------------------------------------------------
(* Bounds of the wrapping model *)
MaxTextLen == 5
MaxWrapWidth == 6

Chars == {"a", "b", " "}

RECURSIVE SeqsUpTo(_, _)
SeqsUpTo(S, n) ==
    IF n = 0 THEN {<<>>}
    ELSE LET shorter == SeqsUpTo(S, n - 1)
         IN  shorter \cup {Append(s, c) : s \in {t \in shorter : Len(t) = n - 1}, c \in S}

Texts == SeqsUpTo(Chars, MaxTextLen)

\* A font metric gives the advance of every character and the kerning of the
\* pair "ab" (the measured width of a string is not the sum of its parts).
WrapFonts == [a : {1, 2}, b : {2, 3}, sp : {0, 1}, kern : {0, 1}]

\* "a" and "b" are glyphs of two widths; the space and punctuation are narrow.
Advance(c, font) == IF c = "a" THEN font.a ELSE IF c = "b" THEN font.b ELSE font.sp

\* font.getbbox(s): bbox[2] - bbox[0], the rendered width of the string s
RECURSIVE getbbox_width(_, _)
getbbox_width(s, font) ==
    IF s = <<>> THEN 0
    ELSE Advance(Head(s), font)
         - (IF Len(s) >= 2 /\ s[1] = "a" /\ s[2] = "b" THEN font.kern ELSE 0)
         + getbbox_width(Tail(s), font)

\* str.split(): the maximal runs of non-whitespace characters, in order
RECURSIVE SplitFrom(_, _, _)
SplitFrom(text, cur, acc) ==
    IF text = <<>> THEN (IF cur = <<>> THEN acc ELSE Append(acc, cur))
    ELSE IF Head(text) = " "
         THEN SplitFrom(Tail(text), <<>>, IF cur = <<>> THEN acc ELSE Append(acc, cur))
         ELSE SplitFrom(Tail(text), Append(cur, Head(text)), acc)

split(text) == SplitFrom(text, <<>>, <<>>)

\* test = current + (" " if current else "") + word
TestLine(current, word) == current \o (IF current # <<>> THEN <<" ">> ELSE <<>>) \o word

\* One iteration of the loop of wrap_text / draw_wrapped_text, where a word
\* that does not fit is dropped instead of starting the next line.
GenWrapStepDropWord(st, word, font, max_width) ==
    LET test == TestLine(st.current, word)
        w    == getbbox_width(test, font)
    IN  IF w > max_width /\ st.current # <<>>
        THEN [lines |-> Append(st.lines, st.current), current |-> <<>>]
        ELSE [lines |-> st.lines, current |-> test]

\* One iteration of the loop of wrap_text / draw_wrapped_text, where the
\* candidate is accepted whatever it measures.
GenWrapStepNoBreak(st, word, font, max_width) ==
    [lines |-> st.lines, current |-> TestLine(st.current, word)]

\* One iteration of the loop of wrap_text / draw_wrapped_text, where a word
\* that is wider than max_width on its own is broken after its first character.
GenWrapStepSplitWide(st, word, font, max_width) ==
    LET test == TestLine(st.current, word)
        w    == getbbox_width(test, font)
        done == IF st.current # <<>> THEN Append(st.lines, st.current) ELSE st.lines
    IN  IF getbbox_width(word, font) > max_width /\ Len(word) >= 2
        THEN [lines |-> Append(done, <<Head(word)>>), current |-> Tail(word)]
        ELSE IF w > max_width /\ st.current # <<>>
        THEN [lines |-> Append(st.lines, st.current), current |-> word]
        ELSE [lines |-> st.lines, current |-> test]

\* One iteration of the loop of wrap_text / draw_wrapped_text (generator.py)
GenWrapStep(st, word, font, max_width) ==
    LET test == TestLine(st.current, word)
        w    == getbbox_width(test, font)
    IN  IF w > max_width /\ st.current # <<>>
        THEN [lines |-> Append(st.lines, st.current), current |-> word]
        ELSE [lines |-> st.lines, current |-> test]

RECURSIVE GenWrapLoop(_, _, _, _)
GenWrapLoop(st, words, font, max_width) ==
    IF words = <<>> THEN st
    ELSE GenWrapLoop(GenWrapStep(st, Head(words), font, max_width), Tail(words), font, max_width)

\* wrap_text(text, font, max_width) of compose_poster; draw_wrapped_text
\* computes its lines with the same loop.
wrap_text(text, font, max_width) ==
    LET st == GenWrapLoop([lines |-> <<>>, current |-> <<>>], split(text), font, max_width)
    IN  IF st.current # <<>> THEN Append(st.lines, st.current) ELSE st.lines

\* One iteration of the loop of PosterComposer._wrap_text, where the current
\* line is committed without the test that it is not empty.
CompWrapStepCommitEmpty(st, word, font, max_width) ==
    LET test_line == TestLine(st.current, word)
    IN  IF getbbox_width(test_line, font) <= max_width
        THEN [lines |-> st.lines, current |-> test_line]
        ELSE [lines |-> Append(st.lines, st.current), current |-> word]

\* One iteration of the loop of PosterComposer._wrap_text
CompWrapStep(st, word, font, max_width) ==
    LET test_line == TestLine(st.current, word)
    IN  IF getbbox_width(test_line, font) <= max_width
        THEN [lines |-> st.lines, current |-> test_line]
        ELSE [lines |-> IF st.current # <<>> THEN Append(st.lines, st.current) ELSE st.lines,
              current |-> word]

RECURSIVE CompWrapLoop(_, _, _, _)
CompWrapLoop(st, words, font, max_width) ==
    IF words = <<>> THEN st
    ELSE CompWrapLoop(CompWrapStep(st, Head(words), font, max_width), Tail(words), font, max_width)

\* PosterComposer._wrap_text(text, font, max_width)
_wrap_text(text, font, max_width) ==
    LET st == CompWrapLoop([lines |-> <<>>, current |-> <<>>], split(text), font, max_width)
    IN  IF st.current # <<>> THEN Append(st.lines, st.current) ELSE st.lines

-----------------------------------------------------------------------------
(* Layout constants and arithmetic of compose_poster (generator.py) *)

width == 1200
height == 1600
margin_x == 80
margin_y == 80
content_width == width - 2 * margin_x
max_per_row == 4

\* Sizes of font_bold, font_regular, font_small / font_small_bold
font_bold_size == 80
font_regular_size == 48
font_small_size == 32

\* int(size * num / den) for the line spacings 1.2, 1.1 and 2.2 (tenths)
IntScale(size, tenths) == (size * tenths) \div 10

Min(a, b) == IF a < b THEN a ELSE b
Max(a, b) == IF a > b THEN a ELSE b

\* y_cursor after the title and the summary block (draw_wrapped_text returns
\* y + len(lines) * int(font.size * line_spacing))
SummaryBottom(titleLines, summaryLines) ==
    margin_y + titleLines * IntScale(font_bold_size, 12) + 20
             + summaryLines * IntScale(font_regular_size, 12)

\* rows = math.ceil(n / max_per_row)
Rows(n) == IF n % max_per_row = 0 THEN n \div max_per_row ELSE n \div max_per_row + 1

\* circle_size = 320 if n == 1 else 220 if n == 2 else 160
circle_size(n) == IF n = 1 THEN 320 ELSE IF n = 2 THEN 220 ELSE 160

\* speakers_in_row without the cap of max_per_row
speakers_in_row_uncapped(n, row) == n - row * max_per_row

\* speakers_in_row = min(max_per_row, n - row * max_per_row)
speakers_in_row(n, row) == Min(max_per_row, n - row * max_per_row)

\* x_positions[j] without the gap left of the first circle
x_position_no_lead(j, k, size) ==
    (j * size * (k + 1) + j * (width - k * size)) \div (k + 1)

\* x_positions[j] with the gap of a full row, whatever the row holds
x_position_full_row_gap(j, k, size) ==
    ((j + 1) * (width - max_per_row * size) + j * size * (max_per_row + 1)) \div (max_per_row + 1)

\* x_positions[j] = int(gap + j * (circle_size + gap)) with
\* gap = (width - k * circle_size) / (k + 1), k = speakers_in_row.
\* The value is non-negative, so int() is the floor of the exact quotient
\* ((j + 1) * (width - k * size) + j * size * (k + 1)) / (k + 1).
x_position(j, k, size) ==
    ((j + 1) * (width - k * size) + j * size * (k + 1)) \div (k + 1)

\* The positions assigned in one row: the inner loop j = 0 .. speakers_in_row - 1
RowPositions(row, k, size, y) ==
    [jj \in 1..k |-> [i   |-> row * max_per_row + (jj - 1),
                      row |-> row,
                      col |-> jj - 1,
                      x   |-> x_position(jj - 1, k, size),
                      y   |-> y]]

\* y += circle_size + int(font_small.size * 2.2)
NextRowY(y, size) == y + size + IntScale(font_small_size, 22)

-----------------------------------------------------------------------------
(* The wrapping routines applied to every text, font metric and width *)

WrapIdle ==
    /\ wtext = <<>>
    /\ wfont = [a |-> 1, b |-> 2, sp |-> 1, kern |-> 0]
    /\ wmax = 0
    /\ wran = {}
    /\ glines = <<>>
    /\ clines = <<>>

\* No answer has been sent for the request yet
NoResponse == [status |-> 0, error_code |-> "none", message |-> "none"]

RenderIdle ==
    /\ engine = "none"
    /\ pc = "idle"
    /\ outcome = "none"
    /\ failed_at = "none"
    /\ landmark_url = "unset"
    /\ overlay_url = "unset"
    /\ background = "none"
    /\ overlay_applied = FALSE
    /\ speaker_photos = <<>>
    /\ credentials = <<>>
    /\ y_cursor = 0
    /\ si = 0
    /\ sy = 0
    /\ max_cred_y = 0
    /\ speaker_grid_bottom = 0
    /\ circles = <<>>
    /\ captions = <<>>
    /\ detail_ys = <<>>
    /\ footer_y = -1
    /\ uploads = 0
    /\ response = NoResponse
    /\ title_text = <<>>
    /\ summary_text = <<>>
    /\ details_lines = 0
    /\ calls = 0
    /\ first_canvas = <<>>

PhotoIdle ==
    /\ pname = <<>>
    /\ plib = <<>>
    /\ phash = <<>>
    /\ presults = <<>>

RateIdle ==
    /\ limiter = "none"
    /\ rpc = <<>>
    /\ zset = {}
    /\ counters = <<>>
    /\ clock = 0
    /\ admitted = 0

ServiceIdle ==
    /\ service = "none"
    /\ _initialized = FALSE
    /\ _font_service = "None"
    /\ ipc = <<>>
    /\ body_runs = 0
    /\ body_done = 0
    /\ cleanups = 0

CredIdle ==
    /\ kpc = "idle"
    /\ speaker_lines = <<>>
    /\ speaker_names = <<>>
    /\ cred_lines = <<>>
    /\ kpairs = <<>>
    /\ kerror = "none"

TemplateIdle ==
    /\ tpc = "idle"
    /\ speaker_count = 0
    /\ layout = [rows |-> 0, cols |-> 0]
    /\ cells = <<>>

SpeakerIdle ==
    /\ stext = <<>>
    /\ sleader = <<>>
    /\ sresult = <<>>
    /\ sdone = FALSE

CityIdle ==
    /\ evenue = <<>>
    /\ etitle = <<>>
    /\ eresult = <<>>

CropIdle ==
    /\ cw = 0
    /\ ch = 0
    /\ ctw = 0
    /\ cth = 0
    /\ cran = {}
    /\ iwindow = <<>>
    /\ rwindow = <<>>

GridIdle ==
    /\ gpc = "idle"
    /\ gn = 0
    /\ gcursor = 0
    /\ gsize = 0
    /\ grows = 0
    /\ grow = 0
    /\ gy = 0
    /\ gpositions = <<>>
    /\ growSizes = <<>>
    /\ gbottom = 0

InitWrap ==
    /\ GridIdle
    /\ RenderIdle
    /\ PhotoIdle
    /\ CropIdle
    /\ CityIdle
    /\ SpeakerIdle
    /\ TemplateIdle
    /\ CredIdle
    /\ ServiceIdle
    /\ RateIdle
    /\ wtext \in Texts
    /\ wfont \in WrapFonts
    /\ wmax \in 0..MaxWrapWidth
    /\ wran = {}
    /\ glines = <<>>
    /\ clines = <<>>

\* compose_poster wraps a text with wrap_text / draw_wrapped_text
GeneratorWrap ==
    /\ "generator" \notin wran
    /\ glines' = wrap_text(wtext, wfont, wmax)
    /\ wran' = wran \cup {"generator"}
    /\ UNCHANGED <<wtext, wfont, wmax, clines>>
    /\ UNCHANGED <<gridVars, renderVars, photoVars, cropVars, cityVars, speakerVars, templateVars, credVars, serviceVars, rateVars>>

\* PosterComposer wraps a text with _wrap_text
ComposerWrap ==
    /\ "composer" \notin wran
    /\ clines' = _wrap_text(wtext, wfont, wmax)
    /\ wran' = wran \cup {"composer"}
    /\ UNCHANGED <<wtext, wfont, wmax, glines>>
    /\ UNCHANGED <<gridVars, renderVars, photoVars, cropVars, cityVars, speakerVars, templateVars, credVars, serviceVars, rateVars>>

NextWrap == GeneratorWrap \/ ComposerWrap

SpecWrap == InitWrap /\ [][NextWrap]_vars

-----------------------------------------------------------------------------
(* Reference notions used by the wrapping properties *)

\* The words of a line: split at single spaces (a line never has two adjacent spaces
\* unless the routine put an empty word into it).
RECURSIVE CountChar(_, _)
CountChar(s, c) ==
    IF s = <<>> THEN 0 ELSE (IF Head(s) = c THEN 1 ELSE 0) + CountChar(Tail(s), c)

IsOneWord(line) == line # <<>> /\ CountChar(line, " ") = 0

\* " ".join(lines)
RECURSIVE JoinSpace(_)
JoinSpace(lines) ==
    IF lines = <<>> THEN <<>>
    ELSE IF Len(lines) = 1 THEN lines[1]
    ELSE lines[1] \o <<" ">> \o JoinSpace(Tail(lines))

\* The whitespace-normalized text: no leading or trailing space, every run of
\* spaces collapsed to one.
RECURSIVE Normalized(_, _)
Normalized(text, prevSpace) ==
    IF text = <<>> THEN <<>>
    ELSE IF Head(text) = " "
         THEN Normalized(Tail(text), TRUE)
         ELSE (IF prevSpace THEN <<" ">> ELSE <<>>) \o <<Head(text)>> \o Normalized(Tail(text), FALSE)

WhitespaceNormalized(text) ==
    LET firstWord == {k \in 1..Len(text) : text[k] # " "}
    IN  IF firstWord = {} THEN <<>>
        ELSE LET f == CHOOSE k \in firstWord : \A m \in firstWord : k <= m
             IN  Normalized(SubSeq(text, f, Len(text)), FALSE)

\* C1: every line returned by the wrapping routines (wrap_text /
\* draw_wrapped_text and PosterComposer._wrap_text) measures at most max_width
\* or consists of exactly one word.
C1_LinesFitOrSingleWord ==
    /\ "generator" \in wran =>
         \A i \in 1..Len(glines) :
            getbbox_width(glines[i], wfont) <= wmax \/ IsOneWord(glines[i])
    /\ "composer" \in wran =>
         \A i \in 1..Len(clines) :
            getbbox_width(clines[i], wfont) <= wmax \/ IsOneWord(clines[i])

\* C1 witness: both routines returned, with a line of several words that fits
\* and a line made of one over-wide word.
C1_Witness ==
    /\ wran = {"generator", "composer"}
    /\ \E i \in 1..Len(glines) : ~IsOneWord(glines[i]) /\ getbbox_width(glines[i], wfont) <= wmax
    /\ \E i \in 1..Len(glines) : IsOneWord(glines[i]) /\ getbbox_width(glines[i], wfont) > wmax
    /\ \E i \in 1..Len(clines) : IsOneWord(clines[i]) /\ getbbox_width(clines[i], wfont) > wmax

\* C2: joining the wrapped lines with single spaces gives exactly the
\* whitespace-normalized input (empty and whitespace-only text give no line).
C2_JoinReconstructsText ==
    /\ "generator" \in wran => JoinSpace(glines) = WhitespaceNormalized(wtext)
    /\ "composer" \in wran => JoinSpace(clines) = WhitespaceNormalized(wtext)
    /\ (wran # {} /\ \A i \in 1..Len(wtext) : wtext[i] = " ") =>
         (("generator" \in wran => glines = <<>>) /\ ("composer" \in wran => clines = <<>>))

\* C2 witness: a text with repeated and leading whitespace wrapped into
\* several lines by both routines.
C2_Witness ==
    /\ wran = {"generator", "composer"}
    /\ Len(glines) >= 2
    /\ Len(clines) >= 2
    /\ wtext # WhitespaceNormalized(wtext)
    /\ Head(wtext) = " "

\* C2 witness for the degenerate input lives in the same run: whitespace-only text.
WrapWhitespaceOnlyReached ==
    /\ wran = {"generator", "composer"}
    /\ wtext # <<>>
    /\ \A i \in 1..Len(wtext) : wtext[i] = " "
    /\ glines = <<>> /\ clines = <<>>

-----------------------------------------------------------------------------
(* The speaker grid of compose_poster, for every speaker count *)

MaxGridSpeakers == 13
MaxBlockLines == 2

InitGrid ==
    /\ WrapIdle
    /\ RenderIdle
    /\ PhotoIdle
    /\ CropIdle
    /\ CityIdle
    /\ SpeakerIdle
    /\ TemplateIdle
    /\ CredIdle
    /\ ServiceIdle
    /\ RateIdle
    /\ gpc = "start"
    /\ gn \in 0..MaxGridSpeakers
    /\ \E tl \in 0..MaxBlockLines, sl \in 0..MaxBlockLines : gcursor = SummaryBottom(tl, sl)
    /\ gsize = 0
    /\ grows = 0
    /\ grow = 0
    /\ gy = 0
    /\ gpositions = <<>>
    /\ growSizes = <<>>
    /\ gbottom = gcursor

\* generator.py 145-153: n > 0, the grid is set up
PlanGridStart ==
    /\ gpc = "start"
    /\ gn # 0
    /\ grows' = Rows(gn)
    /\ gsize' = circle_size(gn)
    /\ gy' = gcursor + 40
    /\ grow' = 0
    /\ gpc' = "rows"
    /\ UNCHANGED <<gn, gcursor, gpositions, growSizes, gbottom>>
    /\ UNCHANGED <<wrapVars, renderVars, photoVars, cropVars, cityVars, speakerVars, templateVars, credVars, serviceVars, rateVars>>

\* generator.py 218-219: n = 0, no grid
PlanGridEmpty ==
    /\ gpc = "start"
    /\ gn = 0
    /\ gbottom' = gcursor + 40
    /\ gpc' = "done"
    /\ UNCHANGED <<gn, gcursor, gsize, grows, grow, gy, gpositions, growSizes>>
    /\ UNCHANGED <<wrapVars, renderVars, photoVars, cropVars, cityVars, speakerVars, templateVars, credVars, serviceVars, rateVars>>

\* generator.py 154-216: one iteration of the loop over the rows
PlanGridRow ==
    /\ gpc = "rows"
    /\ grow < grows
    /\ LET k == speakers_in_row(gn, grow)
       IN  /\ gpositions' = gpositions \o RowPositions(grow, k, gsize, gy)
           /\ growSizes' = Append(growSizes, k)
    /\ gy' = NextRowY(gy, gsize)
    /\ grow' = grow + 1
    /\ UNCHANGED <<gpc, gn, gcursor, gsize, grows, gbottom>>
    /\ UNCHANGED <<wrapVars, renderVars, photoVars, cropVars, cityVars, speakerVars, templateVars, credVars, serviceVars, rateVars>>

\* generator.py 217: the loop is over, speaker_grid_bottom = y
PlanGridEnd ==
    /\ gpc = "rows"
    /\ grow >= grows
    /\ gbottom' = gy
    /\ gpc' = "done"
    /\ UNCHANGED <<gn, gcursor, gsize, grows, grow, gy, gpositions, growSizes>>
    /\ UNCHANGED <<wrapVars, renderVars, photoVars, cropVars, cityVars, speakerVars, templateVars, credVars, serviceVars, rateVars>>

NextGrid == PlanGridStart \/ PlanGridEmpty \/ PlanGridRow \/ PlanGridEnd

SpecGrid == InitGrid /\ [][NextGrid]_vars

RECURSIVE SumSeq(_)
SumSeq(s) == IF s = <<>> THEN 0 ELSE Head(s) + SumSeq(Tail(s))

\* C7: the grid assigns exactly n circle positions, one per speaker, and every
\* circle's horizontal extent [x, x + diameter] lies within
\* [margin_x, width - margin_x].
C7_GridPositionsWithinMargins ==
    /\ \A p \in 1..Len(gpositions) :
          /\ gpositions[p].x >= margin_x
          /\ gpositions[p].x + gsize <= width - margin_x
    /\ gpc = "done" =>
          /\ Len(gpositions) = gn
          /\ \A i \in 0..(gn - 1) : \E p \in 1..Len(gpositions) : gpositions[p].i = i

\* C7 witness: a finished grid of nine speakers in three rows
C7_Witness ==
    /\ gpc = "done"
    /\ gn = 9
    /\ Len(gpositions) = 9

\* C8: for n >= 1 the grid has ceil(n / 4) rows, every row holds at most 4
\* circles, every row but the last exactly 4, and the row sizes sum to n.
C8_RowCapacity ==
    (gpc = "done" /\ gn >= 1) =>
        /\ 4 * Len(growSizes) >= gn
        /\ 4 * (Len(growSizes) - 1) < gn
        /\ \A r \in 1..Len(growSizes) : growSizes[r] >= 1 /\ growSizes[r] <= 4
        /\ \A r \in 1..(Len(growSizes) - 1) : growSizes[r] = 4
        /\ SumSeq(growSizes) = gn
        /\ \A r \in 1..Len(growSizes) :
              Cardinality({p \in 1..Len(gpositions) : gpositions[p].row = r - 1}) = growSizes[r]

\* C8 witness: a finished grid whose last row is partly filled
C8_Witness ==
    /\ gpc = "done"
    /\ Len(growSizes) = 3
    /\ growSizes[3] = 2

\* The circles of row r, as indices into gpositions
RowOf(r) == {p \in 1..Len(gpositions) : gpositions[p].row = r}

LeftGap(r) == LET first == CHOOSE p \in RowOf(r) : \A q \in RowOf(r) : gpositions[p].x <= gpositions[q].x
              IN  gpositions[first].x

RightGap(r) == LET last == CHOOSE p \in RowOf(r) : \A q \in RowOf(r) : gpositions[p].x >= gpositions[q].x
               IN  width - (gpositions[last].x + gsize)

\* C9: in every row, also a last row with fewer than 4 circles, the block of
\* circles is centred: the gap left of the first circle and the gap right of
\* the last differ by at most one pixel; with 5 speakers the circle of the
\* second row is centred at width / 2.
C9_RowsCentred ==
    /\ \A r \in 0..(Len(growSizes) - 1) :
          /\ LeftGap(r) - RightGap(r) <= 1
          /\ RightGap(r) - LeftGap(r) <= 1
    /\ (gpc = "done" /\ gn = 5) =>
          \E p \in RowOf(1) : RowOf(1) = {p} /\ 2 * gpositions[p].x + gsize = width

\* C9 witness: five speakers, the second row holds one circle
C9_Witness ==
    /\ gpc = "done"
    /\ gn = 5
    /\ growSizes = <<4, 1>>

-----------------------------------------------------------------------------
(* One render request                                                       *)
(*                                                                         *)
(* The collaborators (media search, text extraction, image download and    *)
(* decoding, font files, upload) are the environment: every lookup may hit *)
(* or miss and every download, decode or upload may raise.                 *)

MaxSpeakers == 5

\* Metric of the poster fonts: advances proportional to the font size
PosterFont(size) == [a |-> 3 * size, b |-> 5 * size, sp |-> size, kern |-> 0]

\* Texts the collaborators hand to compose_poster
TitleLong == <<"a", "b", " ", "a", "b", " ", "a", "b", " ", "a", "b", " ", "a", "b", " ",
               "a", "b">>
TitlePool == {<<"a">>, <<"a", "b", " ", "a", "b", " ", "b">>, TitleLong}
SummaryPool == {<<>>, <<"a", "b", " ", "a", "b", " ", "b">>}
CredNameOnly == <<"a">>
CredLong == <<"a", "b", " ", "a", "b", ",", " ", "b", " ", "b", ",", " ", "b">>
CredPool == {CredNameOnly, CredLong}

\* str.strip(): leading, then trailing whitespace is removed
RECURSIVE StripLeading(_)
StripLeading(text) ==
    IF text # <<>> /\ Head(text) = " " THEN StripLeading(Tail(text)) ELSE text

RECURSIVE StripTrailing(_)
StripTrailing(text) ==
    IF text # <<>> /\ text[Len(text)] = " "
    THEN StripTrailing(SubSeq(text, 1, Len(text) - 1)) ELSE text

strip(text) == StripTrailing(StripLeading(text))

\* cred.split(",", 1): the text before the first comma and, when there is a
\* comma, the text after it
split_comma_once(cred) ==
    LET commas == {k \in 1..Len(cred) : cred[k] = ","}
    IN  IF commas = {} THEN <<cred>>
        ELSE LET c == CHOOSE k \in commas : \A m \in commas : k <= m
             IN  <<SubSeq(cred, 1, c - 1), SubSeq(cred, c + 1, Len(cred))>>

\* generator.py 174-213: the credential block under the circle at top y
CredentialBlock(cred, size, y) ==
    LET cred_y         == y + size + 10
        cred_parts     == split_comma_once(cred)
        name           == strip(cred_parts[1])
        rest           == IF Len(cred_parts) > 1 THEN strip(cred_parts[2]) ELSE <<>>
        max_cred_width == Min(2 * size, content_width)
        name_lines     == wrap_text(name, PosterFont(font_small_size), max_cred_width)
        offset_y       == cred_y + Len(name_lines) * IntScale(font_small_size, 11)
        rest_lines     == IF rest # <<>>
                          THEN wrap_text(rest, PosterFont(font_small_size), max_cred_width)
                          ELSE <<>>
        cred_end_y     == IF rest # <<>>
                          THEN offset_y + Len(rest_lines) * IntScale(font_small_size, 11)
                          ELSE offset_y
    IN  [top |-> cred_y, bottom |-> cred_end_y,
         name_lines |-> name_lines, rest_lines |-> rest_lines]

\* generator.py 138-143: y_cursor after the title and the summary
TitleSummaryBottom(title, summary) ==
    SummaryBottom(Len(wrap_text(title, PosterFont(font_bold_size), content_width)),
                  Len(wrap_text(summary, PosterFont(font_regular_size), content_width)))

\* generator.py 256-266: y of the event-detail line i (0-based)
line_gap == 54
free_gap == 30
DetailLineY(details_y, i) == details_y + i * (line_gap + free_gap)

\* generator.py 225: icon_size
icon_size == IntScale(font_regular_size, 11)

\* generator.py 293: the text of a detail line is drawn at
\* y + (icon_size - font_regular.size) // 2 and is one line of that font high
DetailLineBottom(y) == y + (icon_size - font_regular_size) \div 2 + font_regular_size

\* generator.py 298: reg_y
reg_y_per_call == height - margin_y - 210 - calls
reg_y == height - margin_y - 210

Init ==
    /\ WrapIdle
    /\ GridIdle
    /\ PhotoIdle
    /\ CropIdle
    /\ CityIdle
    /\ SpeakerIdle
    /\ TemplateIdle
    /\ CredIdle
    /\ ServiceIdle
    /\ RateIdle
    /\ engine \in {"generator", "composer"}
    /\ pc = "start"
    /\ outcome = "none"
    /\ failed_at = "none"
    /\ landmark_url = "unset"
    /\ overlay_url = "unset"
    /\ background = "none"
    /\ overlay_applied = FALSE
    /\ speaker_photos = <<>>
    /\ credentials = <<>>
    /\ y_cursor = 0
    /\ si = 0
    /\ sy = 0
    /\ max_cred_y = 0
    /\ speaker_grid_bottom = 0
    /\ circles = <<>>
    /\ captions = <<>>
    /\ detail_ys = <<>>
    /\ footer_y = -1
    /\ uploads = 0
    /\ response = NoResponse
    /\ title_text = <<>>
    /\ summary_text = <<>>
    /\ details_lines = 0
    /\ calls = 0
    /\ first_canvas = <<>>

\* api/poster.py 28-30: HTTPException(status_code=500, detail=str(e))
RouterErrorResponse ==
    [status |-> 500, error_code |-> "none", message |-> "exception_text"]

\* main.py 420-438: PosterGenerationResponse(success=False,
\* message="Failed to generate posters: " + str(e), errors=[str(e)])
EndpointErrorResponse ==
    [status |-> 200, error_code |-> "none", message |-> "exception_text"]

\* main.py 199-209: the answer of timeout_middleware
TimeoutResponse ==
    [status |-> 408, error_code |-> "TIMEOUT", message |-> "fixed_text"]

\* api/poster.py 27: {"poster_urls": poster_urls}
RouterOkResponse ==
    [status |-> 200, error_code |-> "none", message |-> "poster_urls"]

\* The caller gets the first answer sent for the request
Answer(r) == IF response = NoResponse THEN r ELSE response

\* An exception ends the render: the endpoint answers with an error
Raise(step) ==
    /\ pc' = "done"
    /\ outcome' = "error"
    /\ failed_at' = step
    /\ response' = Answer(IF engine = "generator" THEN RouterErrorResponse
                          ELSE EndpointErrorResponse)

layoutVars == <<y_cursor, si, sy, max_cred_y, speaker_grid_bottom, circles, captions,
                detail_ys, footer_y>>
assetVars == <<landmark_url, overlay_url, speaker_photos, credentials>>
canvasVars == <<background, overlay_applied>>
textVars == <<title_text, summary_text, details_lines>>
replayVars == <<calls, first_canvas>>

(* ---- PosterGenerator.generate and compose_poster (generator.py) ---- *)

\* generator.py 15-81: the lookups and text extraction before compose_poster
Generate_Resolve ==
    /\ engine = "generator"
    /\ pc = "start"
    /\ \/ /\ Raise("collaborator")
          /\ UNCHANGED <<assetVars, calls>>
       \/ /\ landmark_url' \in {"none", "url"}
          /\ overlay_url' \in {"none", "url"}
          /\ \E n \in 0..MaxSpeakers :
                /\ speaker_photos' \in [1..n -> {"none", "url"}]
                /\ credentials' \in [1..n -> CredPool]
          /\ calls' = 1
          /\ pc' = "background"
          /\ UNCHANGED <<outcome, failed_at, response>>
    /\ UNCHANGED <<engine, canvasVars, layoutVars, uploads, textVars, first_canvas,
                   wrapVars, gridVars, photoVars, cropVars, cityVars, speakerVars, templateVars, credVars, serviceVars, rateVars>>

\* generator.py 108-109 with ImageService.open_image: the landmark is opened
\* and cropped; open_image raises on a missing url (None has no startswith)
\* and on a failed download or decode.
Compose_Background ==
    /\ engine = "generator"
    /\ pc = "background"
    /\ IF landmark_url = "none"
       THEN Raise("landmark") /\ UNCHANGED background
       ELSE \/ Raise("landmark") /\ UNCHANGED background
            \/ /\ background' = "landmark"
               /\ pc' = "overlay"
               /\ UNCHANGED <<outcome, failed_at, response>>
    /\ UNCHANGED <<engine, assetVars, overlay_applied, layoutVars, uploads, textVars, replayVars,
                   wrapVars, gridVars, photoVars, cropVars, cityVars, speakerVars, templateVars, credVars, serviceVars, rateVars>>

\* generator.py 110-112: open_image(overlay_url), crop, alpha_composite
OverlayStep ==
    IF overlay_url = "none"
    THEN Raise("overlay") /\ UNCHANGED overlay_applied
    ELSE \/ Raise("overlay") /\ UNCHANGED overlay_applied
         \/ /\ overlay_applied' = TRUE
            /\ pc' = "fonts"
            /\ UNCHANGED <<outcome, failed_at, response>>

Compose_Overlay ==
    /\ engine = "generator"
    /\ pc = "overlay"
    /\ OverlayStep
    /\ UNCHANGED <<engine, assetVars, background, layoutVars, uploads, textVars, replayVars,
                   wrapVars, gridVars, photoVars, cropVars, cityVars, speakerVars, templateVars, credVars, serviceVars, rateVars>>

\* generator.py 114-117: ImageFont.truetype raises when a font file cannot be read
Compose_Fonts ==
    /\ engine = "generator"
    /\ pc = "fonts"
    /\ \/ Raise("fonts")
       \/ pc' = "title" /\ UNCHANGED <<outcome, failed_at, response>>
    /\ UNCHANGED <<engine, assetVars, canvasVars, layoutVars, uploads, textVars, replayVars,
                   wrapVars, gridVars, photoVars, cropVars, cityVars, speakerVars, templateVars, credVars, serviceVars, rateVars>>

\* generator.py 138-143: title and summary blocks
Compose_TitleSummary ==
    /\ engine = "generator"
    /\ pc = "title"
    /\ \E title \in TitlePool, summary \in SummaryPool :
          /\ calls = 2 => title = title_text /\ summary = summary_text
          /\ title_text' = title
          /\ summary_text' = summary
          /\ y_cursor' = TitleSummaryBottom(title, summary)
    /\ pc' = "grid"
    /\ UNCHANGED <<engine, outcome, failed_at, response, assetVars, canvasVars, si, sy, max_cred_y,
                   speaker_grid_bottom, circles, captions, detail_ys, footer_y, uploads,
                   details_lines, replayVars,
                   wrapVars, gridVars, photoVars, cropVars, cityVars, speakerVars, templateVars, credVars, serviceVars, rateVars>>

\* An empty grid that still reserves the height of one row of circles
EmptyGridBottomReservingRow(cursor) == NextRowY(cursor + 40, circle_size(0))

\* generator.py 218-219: speaker_grid_bottom when there is no speaker
EmptyGridBottom(cursor) == cursor + 40

\* generator.py 145-153 and 218-219: the grid is set up, or skipped when n = 0
Compose_GridStart ==
    /\ engine = "generator"
    /\ pc = "grid"
    /\ max_cred_y' = y_cursor
    /\ si' = 0
    /\ IF Len(speaker_photos) # 0
       THEN /\ sy' = y_cursor + 40
            /\ speaker_grid_bottom' = y_cursor
            /\ pc' = "speakers"
       ELSE /\ sy' = sy
            /\ speaker_grid_bottom' = EmptyGridBottom(y_cursor)
            /\ pc' = "details"
    /\ UNCHANGED <<engine, outcome, failed_at, response, assetVars, canvasVars, y_cursor, circles,
                   captions, detail_ys, footer_y, uploads, textVars, replayVars,
                   wrapVars, gridVars, photoVars, cropVars, cityVars, speakerVars, templateVars, credVars, serviceVars, rateVars>>

\* generator.py 160-215: the body of the inner loop for speaker i at (x, sy):
\* a speaker without photo is skipped (continue); open_image may raise;
\* otherwise the photo is pasted and the credential block drawn.
SpeakerStep(i, x, size, nexty) ==
    LET block == CredentialBlock(credentials[i + 1], size, sy)
    IN  IF speaker_photos[i + 1] = "none"
        THEN /\ si' = i + 1
             /\ sy' = nexty
             /\ UNCHANGED <<pc, outcome, failed_at, response, circles, captions, max_cred_y>>
        ELSE \/ Raise("photo") /\ UNCHANGED <<circles, captions, max_cred_y, si, sy>>
             \/ /\ circles' = Append(circles,
                        [i |-> i, kind |-> "photo", src |-> i, x |-> x, y |-> sy,
                         size |-> size])
                /\ captions' = Append(captions, [i |-> i] @@ block)
                /\ max_cred_y' = Max(max_cred_y, block.bottom)
                /\ si' = i + 1
                /\ sy' = nexty
                /\ UNCHANGED <<pc, outcome, failed_at, response>>

\* generator.py 154-216: one speaker of the grid; after the last speaker of a
\* row, y moves to the next row (line 216)
Compose_Speaker ==
    /\ engine = "generator"
    /\ pc = "speakers"
    /\ si < Len(speaker_photos)
    /\ LET n    == Len(speaker_photos)
           row  == si \div max_per_row
           j    == si % max_per_row
           k    == speakers_in_row(n, row)
           size == circle_size(n)
           x    == x_position(j, k, size)
           nexty == IF j = k - 1 THEN NextRowY(sy, size) ELSE sy
       IN  SpeakerStep(si, x, size, nexty)
    /\ UNCHANGED <<engine, assetVars, canvasVars, y_cursor, speaker_grid_bottom, detail_ys,
                   footer_y, uploads, textVars, replayVars,
                   wrapVars, gridVars, photoVars, cropVars, cityVars, speakerVars, templateVars, credVars, serviceVars, rateVars>>

\* generator.py 217: speaker_grid_bottom = y
Compose_GridEnd ==
    /\ engine = "generator"
    /\ pc = "speakers"
    /\ si >= Len(speaker_photos)
    /\ speaker_grid_bottom' = sy
    /\ pc' = "details"
    /\ UNCHANGED <<engine, outcome, failed_at, response, assetVars, canvasVars, y_cursor, si, sy,
                   max_cred_y, circles, captions, detail_ys, footer_y, uploads,
                   textVars, replayVars,
                   wrapVars, gridVars, photoVars, cropVars, cityVars, speakerVars, templateVars, credVars, serviceVars, rateVars>>

\* details_y as line 221 computes it
details_y_after_credentials == Max(speaker_grid_bottom + 30, max_cred_y + 30)

\* generator.py 255: details_y = speaker_grid_bottom + 30 (replaces the value of line 221)
details_y == speaker_grid_bottom + 30

\* generator.py 221-293: the icons are looked up and opened, then every
\* event-detail line is drawn at details_y + i * (line_gap + free_gap)
Compose_Details ==
    /\ engine = "generator"
    /\ pc = "details"
    /\ \/ Raise("icon") /\ UNCHANGED <<detail_ys, details_lines>>
       \/ /\ \E nlines \in 0..3 :
                /\ calls = 2 => nlines = details_lines
                /\ details_lines' = nlines
                /\ detail_ys' = [l \in 1..nlines |-> DetailLineY(details_y, l - 1)]
          /\ pc' = "footer"
          /\ UNCHANGED <<outcome, failed_at, response>>
    /\ UNCHANGED <<engine, assetVars, canvasVars, y_cursor, si, sy, max_cred_y,
                   speaker_grid_bottom, circles, captions, footer_y, uploads,
                   title_text, summary_text, replayVars,
                   wrapVars, gridVars, photoVars, cropVars, cityVars, speakerVars, templateVars, credVars, serviceVars, rateVars>>

\* generator.py 295-310: the register line
Compose_Footer ==
    /\ engine = "generator"
    /\ pc = "footer"
    /\ \/ Raise("icon") /\ UNCHANGED footer_y
       \/ /\ footer_y' = reg_y
          /\ pc' = "save"
          /\ UNCHANGED <<outcome, failed_at, response>>
    /\ UNCHANGED <<engine, assetVars, canvasVars, y_cursor, si, sy, max_cred_y,
                   speaker_grid_bottom, circles, captions, detail_ys, uploads,
                   textVars, replayVars,
                   wrapVars, gridVars, photoVars, cropVars, cityVars, speakerVars, templateVars, credVars, serviceVars, rateVars>>

\* The poster is saved; when saving fails compose_poster returns None and
\* generate goes on to upload_media without looking at the path
Compose_SaveUnchecked ==
    /\ engine = "generator"
    /\ pc = "save"
    /\ \/ failed_at' = "save" /\ pc' = "upload" /\ UNCHANGED <<outcome, response>>
       \/ pc' = "upload" /\ UNCHANGED <<outcome, failed_at, response>>
    /\ UNCHANGED <<engine, assetVars, canvasVars, layoutVars, uploads, textVars, replayVars,
                   wrapVars, gridVars, photoVars, cropVars, cityVars, speakerVars, templateVars, credVars, serviceVars, rateVars>>

\* generator.py 311-320 and 93-96: the poster is saved; when saving fails
\* compose_poster returns None and generate raises RuntimeError
Compose_Save ==
    /\ engine = "generator"
    /\ pc = "save"
    /\ \/ Raise("save")
       \/ pc' = "upload" /\ UNCHANGED <<outcome, failed_at, response>>
    /\ UNCHANGED <<engine, assetVars, canvasVars, layoutVars, uploads, textVars, replayVars,
                   wrapVars, gridVars, photoVars, cropVars, cityVars, speakerVars, templateVars, credVars, serviceVars, rateVars>>

\* What compose_poster has put on the image it saves: background, overlay,
\* heading texts and their bottom edge, speaker circles and captions, detail
\* lines and footer (generator.py 119-309)
Canvas ==
    [background |-> background, overlay |-> overlay_applied, title |-> title_text,
     summary |-> summary_text, heading_bottom |-> y_cursor, circles |-> circles,
     captions |-> captions, detail_ys |-> detail_ys, footer_y |-> footer_y]

\* generator.py 100-107: compose_poster is entered a second time with the
\* arguments and asset images of the first call; its locals start afresh and
\* the first call's image is kept for comparison
Compose_Again ==
    /\ engine = "generator"
    /\ pc = "save"
    /\ calls = 1
    /\ first_canvas' = Canvas
    /\ calls' = 2
    /\ background' = "none"
    /\ overlay_applied' = FALSE
    /\ y_cursor' = 0
    /\ si' = 0
    /\ sy' = 0
    /\ max_cred_y' = 0
    /\ speaker_grid_bottom' = 0
    /\ circles' = <<>>
    /\ captions' = <<>>
    /\ detail_ys' = <<>>
    /\ footer_y' = -1
    /\ pc' = "background"
    /\ UNCHANGED <<engine, outcome, failed_at, response, assetVars, uploads, textVars,
                   wrapVars, gridVars, photoVars, cropVars, cityVars, speakerVars, templateVars, credVars, serviceVars, rateVars>>

\* generator.py 97-98: upload_media
Generate_Upload ==
    /\ engine = "generator"
    /\ pc = "upload"
    /\ \/ Raise("upload") /\ UNCHANGED uploads
       \/ /\ uploads' = uploads + 1
          /\ pc' = "done"
          /\ outcome' = "ok"
          /\ response' = Answer(RouterOkResponse)
          /\ UNCHANGED failed_at
    /\ UNCHANGED <<engine, assetVars, canvasVars, layoutVars, textVars, replayVars,
                   wrapVars, gridVars, photoVars, cropVars, cityVars, speakerVars, templateVars, credVars, serviceVars, rateVars>>

(* ---- PosterComposer.generate_posters (poster_composer.py) ---- *)

\* poster_composer.py 42-53: the landmark lookup; a miss is only logged
Posters_Landmark ==
    /\ engine = "composer"
    /\ pc = "start"
    /\ landmark_url' \in {"none", "url"}
    /\ pc' = "base"
    /\ UNCHANGED <<engine, outcome, failed_at, response, overlay_url, speaker_photos, credentials,
                   canvasVars, layoutVars, uploads, textVars, replayVars,
                   wrapVars, gridVars, photoVars, cropVars, cityVars, speakerVars, templateVars, credVars, serviceVars, rateVars>>

\* poster_composer.py 213-225: _create_base_poster, layer 1. The canvas is
\* white; the landmark is pasted when there is one (_download_image raises on
\* a failed download or decode).
Posters_CreateBase ==
    /\ engine = "composer"
    /\ pc = "base"
    /\ IF landmark_url = "url"
       THEN \/ Raise("landmark") /\ UNCHANGED background
            \/ /\ background' = "landmark"
               /\ pc' = "branding"
               /\ UNCHANGED <<outcome, failed_at, response>>
       ELSE /\ background' = "blank"
            /\ pc' = "branding"
            /\ UNCHANGED <<outcome, failed_at, response>>
    /\ UNCHANGED <<engine, assetVars, overlay_applied, layoutVars, uploads, textVars, replayVars,
                   wrapVars, gridVars, photoVars, cropVars, cityVars, speakerVars, templateVars, credVars, serviceVars, rateVars>>

\* poster_composer.py 227-268: _add_branding_overlay; a miss and every
\* exception leave the poster without overlay
Posters_Overlay ==
    /\ engine = "composer"
    /\ pc = "branding"
    /\ overlay_url' \in {"none", "url"}
    /\ IF overlay_url' = "url"
       THEN overlay_applied' \in BOOLEAN
       ELSE overlay_applied' = FALSE
    /\ pc' = "fonts"
    /\ UNCHANGED <<engine, outcome, failed_at, response, landmark_url, speaker_photos, credentials,
                   background, layoutVars, uploads, textVars, replayVars,
                   wrapVars, gridVars, photoVars, cropVars, cityVars, speakerVars, templateVars, credVars, serviceVars, rateVars>>

\* The font service awaited: the render goes on to _save_poster and the
\* endpoint answers with the poster
Posters_FontsAwaited ==
    /\ engine = "composer"
    /\ pc = "fonts"
    /\ uploads' = uploads + 1
    /\ pc' = "done"
    /\ outcome' = "ok"
    /\ response' = Answer([status |-> 200, error_code |-> "none", message |-> "posters"])
    /\ UNCHANGED <<engine, failed_at, assetVars, canvasVars, layoutVars, textVars, replayVars,
                   wrapVars, gridVars,
                   photoVars, cropVars, cityVars, speakerVars, templateVars, credVars, serviceVars, rateVars>>

\* poster_composer.py 83-84 with font_service.py 136: get_font_service is a
\* coroutine function and is called without await, so font_service is a
\* coroutine object and font_service.get_title_font raises AttributeError;
\* generate_posters re-raises it (lines 63-67).
Posters_Fonts ==
    /\ engine = "composer"
    /\ pc = "fonts"
    /\ Raise("fonts")
    /\ UNCHANGED <<engine, assetVars, canvasVars, layoutVars, uploads, textVars, replayVars,
                   wrapVars, gridVars, photoVars, cropVars, cityVars, speakerVars, templateVars, credVars, serviceVars, rateVars>>

\* main.py 189-209: timeout_middleware serves the endpoints of main.py, which
\* render with PosterComposer.  After 25 s asyncio.wait_for cancels
\* call_next(request) and the middleware answers 408.  Whether the endpoint
\* behind call_next is stopped with it is decided by the ASGI framework: it
\* either keeps running or ends at its current await.
Timeout_Middleware ==
    /\ engine = "composer"
    /\ pc # "done"
    /\ response = NoResponse
    /\ response' = TimeoutResponse
    /\ \/ UNCHANGED <<pc, outcome, failed_at>>
       \/ /\ pc' = "done"
          /\ outcome' = "cancelled"
          /\ UNCHANGED failed_at
    /\ UNCHANGED <<engine, assetVars, canvasVars, layoutVars, uploads, textVars, replayVars,
                   wrapVars, gridVars,
                   photoVars, cropVars, cityVars, speakerVars, templateVars, credVars, serviceVars, rateVars>>

Next ==
    \/ Generate_Resolve
    \/ Compose_Background
    \/ Compose_Overlay
    \/ Compose_Fonts
    \/ Compose_TitleSummary
    \/ Compose_GridStart
    \/ Compose_Speaker
    \/ Compose_GridEnd
    \/ Compose_Details
    \/ Compose_Footer
    \/ Compose_Save
    \/ Compose_Again
    \/ Generate_Upload
    \/ Posters_Landmark
    \/ Posters_CreateBase
    \/ Posters_Overlay
    \/ Posters_Fonts
    \/ Timeout_Middleware

Spec == Init /\ [][Next]_vars

TypeOK ==
    /\ engine \in {"none", "generator", "composer"}
    /\ outcome \in {"none", "ok", "error", "cancelled"}
    /\ response \in {NoResponse, RouterErrorResponse, EndpointErrorResponse,
                      TimeoutResponse, RouterOkResponse}
    /\ uploads \in 0..1
    /\ background \in {"none", "landmark", "blank"}

\* The grid slot compose_poster plans for speaker i (0-based)
PlannedX(i) ==
    LET n == Len(speaker_photos)
    IN  x_position(i % max_per_row, speakers_in_row(n, i \div max_per_row), circle_size(n))

\* C3: if the landmark lookup returns no asset the render aborts with an
\* error: no poster is composed on a substitute background and no image is
\* uploaded for the request.
C3_MissingLandmarkAborts ==
    landmark_url = "none" =>
        /\ background = "none"
        /\ ~overlay_applied
        /\ uploads = 0
        /\ pc = "done" => outcome = "error"

\* C4: if the lookup of "overlay" returns no asset while the landmark is
\* present and every other step succeeds, the render completes successfully
\* on the landmark background without overlay.
C4_MissingOverlayStillRenders ==
    (pc = "done" /\ landmark_url = "url" /\ overlay_url = "none"
        /\ failed_at \in {"none", "overlay"}) =>
        /\ outcome = "ok"
        /\ background = "landmark"
        /\ ~overlay_applied
        /\ uploads = 1

\* C5: every speaker whose photo lookup returned no asset gets a placeholder
\* circle of the planned diameter at its grid position and its credential
\* block beneath; no such speaker is omitted.
C5_MissingPhotoGetsPlaceholder ==
    (engine = "generator" /\ pc \in {"speakers", "details", "footer", "save", "upload", "done"}
        /\ failed_at = "none") =>
        \A i \in 0..(si - 1) :
            speaker_photos[i + 1] = "none" =>
                /\ \E c \in 1..Len(circles) :
                      /\ circles[c].i = i
                      /\ circles[c].kind = "placeholder"
                      /\ circles[c].size = circle_size(Len(speaker_photos))
                      /\ circles[c].x = PlannedX(i)
                /\ \E c \in 1..Len(captions) : captions[c].i = i

\* C6: a speaker photo that was resolved but cannot be downloaded or decoded
\* counts as absent for that speaker only; the render is not aborted by it.
C6_BadPhotoDoesNotAbort ==
    failed_at # "photo"

\* C10: the first event-detail line is drawn at or below the bottom of every
\* speaker's credential block plus the section margin of 30.
C10_DetailsBelowCaptions ==
    detail_ys # <<>> =>
        \A c \in 1..Len(captions) : detail_ys[1] >= captions[c].bottom + 30

\* C11: with zero speakers compose_poster draws no circle and no credential
\* text, and the first event-detail line is drawn at the cursor below the
\* summary plus one fixed margin (40 + 30) that depends on no input.
C11_EmptyGridDetailsAtFixedMargin ==
    (engine = "generator" /\ Len(speaker_photos) = 0
        /\ pc \in {"footer", "save", "upload", "done"}) =>
        /\ circles = <<>>
        /\ captions = <<>>
        /\ detail_ys # <<>> => detail_ys[1] = y_cursor + 70

\* C11 witness: a render without speakers, below a title of several lines,
\* that drew its event-detail lines
C11_Witness ==
    /\ engine = "generator"
    /\ Len(speaker_photos) = 0
    /\ pc = "save"
    /\ y_cursor > SummaryBottom(1, 0)
    /\ Len(detail_ys) = 3
    /\ circles = <<>>
    /\ detail_ys[1] = y_cursor + 70

-----------------------------------------------------------------------------
(* find_speaker_photo: the photo lookup of one speaker name (generator.py 34-66) *)

MaxLookups == 2

\* str.lower() and str.upper() on the letters the names are written with
LowerChar(c) == CASE c = "A" -> "a" [] c = "B" -> "b" [] OTHER -> c
UpperChar(c) == CASE c = "a" -> "A" [] c = "b" -> "B" [] OTHER -> c
lower(s) == [k \in 1..Len(s) |-> LowerChar(s[k])]
upper(s) == [k \in 1..Len(s) |-> UpperChar(s[k])]

\* str.replace(" ", r)
RECURSIVE replace_space(_, _)
replace_space(s, r) ==
    IF s = <<>> THEN <<>>
    ELSE (IF Head(s) = " " THEN r ELSE <<Head(s)>>) \o replace_space(Tail(s), r)

\* re.sub(r'[^a-zA-Z0-9 ]', '', base)
IsAlnumOrSpace(c) == c \in {"A", "a", "B", "b", " "}
base_clean(base) == SelectSeq(base, IsAlnumOrSpace)

\* generator.py 37-59: the variants in the order of the variants.add calls
variant_list(name) ==
    LET base  == strip(name)
        clean == base_clean(base)
        parts == split(clean)
        first == IF parts # <<>> THEN parts[1] ELSE clean
        last  == IF Len(parts) > 1 THEN parts[Len(parts)] ELSE <<>>
        full  == << base, lower(base), upper(base),
                    lower(replace_space(base, <<"-">>)),
                    lower(replace_space(base, <<"_">>)),
                    replace_space(base, <<>>),
                    first, lower(first), upper(first) >>
    IN  IF first # <<>> /\ last # <<>> /\ first # last
        THEN full \o << first \o <<" ">> \o last,
                        lower(first) \o <<" ">> \o lower(last),
                        first \o last,
                        lower(first) \o lower(last) >>
        ELSE full

\* variants is a set(): duplicates collapse and the add order is not kept
variants(name) == {variant_list(name)[k] : k \in 1..Len(variant_list(name))}

\* generator.py 60-65: `for variant in variants` walks the set in the order
\* of the strings' hashes, which CPython draws anew for every process; the
\* first variant in that order that search_media finds is returned.  Only
\* the order among the keys the library knows can change the result.
find_speaker_photo(name, lib, order) ==
    LET hits == SelectSeq(order, LAMBDA k : k \in variants(name) /\ lib[k] # "none")
    IN  IF hits = <<>> THEN "none" ELSE lib[hits[1]]

\* Speaker names as generate hands them over (stripped, line 30)
NameTwo    == <<"A", "b", " ", "B", "a">>
NameOne    == <<"A", "b">>
NameMiddle == <<"A", "b", " ", "A", " ", "B", "a">>
NamePunct  == <<"A", "b", ".", " ", "B", "a">>
NamePool   == {NameTwo, NameOne, NameMiddle, NamePunct}

\* The search keys a media library may know, and the photos it may hold
LibraryKeys == {NameTwo, lower(NameTwo), <<"a", "b", "-", "b", "a">>, NameOne}
Photos == {"p1", "p2"}
HashOrders ==
    {o \in [1..Cardinality(LibraryKeys) -> LibraryKeys] :
        \A a, b \in DOMAIN o : a # b => o[a] # o[b]}

InitPhoto ==
    /\ WrapIdle
    /\ GridIdle
    /\ RenderIdle
    /\ CropIdle
    /\ CityIdle
    /\ SpeakerIdle
    /\ TemplateIdle
    /\ CredIdle
    /\ ServiceIdle
    /\ RateIdle
    /\ pname \in NamePool
    /\ plib \in [LibraryKeys -> Photos \cup {"none"}]
    /\ phash \in HashOrders
    /\ presults = <<>>

\* generator.py 68: one lookup of the name
LookupPhoto ==
    /\ Len(presults) < MaxLookups
    /\ presults' = Append(presults, find_speaker_photo(pname, plib, phash))
    /\ UNCHANGED <<pname, plib, phash>>
    /\ UNCHANGED <<wrapVars, gridVars, renderVars, cropVars, cityVars, speakerVars, templateVars, credVars, serviceVars, rateVars>>

\* The service process is started again: the string hashes are drawn anew
RestartProcess ==
    /\ phash' \in HashOrders \ {phash}
    /\ UNCHANGED <<pname, plib, presults>>
    /\ UNCHANGED <<wrapVars, gridVars, renderVars, cropVars, cityVars, speakerVars, templateVars, credVars, serviceVars, rateVars>>

NextPhoto == LookupPhoto \/ RestartProcess

SpecPhoto == InitPhoto /\ [][NextPhoto]_vars

\* The hit of the earliest matching variant of an ordered list
FirstHit(list, lib) ==
    LET hits == SelectSeq(list, LAMBDA v : v \in DOMAIN lib /\ lib[v] # "none")
    IN  IF hits = <<>> THEN "none" ELSE lib[hits[1]]

\* C12: every lookup returns the hit of the earliest matching variant in the
\* fixed order exact, lowercased, hyphenated, underscored, no-space,
\* first-name-only, first+last (none only when no variant matches), so all
\* lookups of one name against one library return the same photo.
C12_EarliestVariantWins ==
    \A k \in 1..Len(presults) : presults[k] = FirstHit(variant_list(pname), plib)

\* A lookup returns none exactly when no variant of the name is in the library
LookupNoneIffNoVariantMatches ==
    \A k \in 1..Len(presults) :
        presults[k] = "none" <=>
            \A v \in variants(pname) \cap LibraryKeys : plib[v] = "none"

\* The top of the grid row compose_poster plans for speaker i (0-based)
PlannedY(i) ==
    LET size == circle_size(Len(speaker_photos))
    IN  y_cursor + 40 + (i \div max_per_row) * (NextRowY(0, size))

\* C13: the speaker at index i is placed in grid slot (row i div 4, column
\* i mod 4) with its own photo lookup result, whatever the lookup results of
\* the other speakers.
C13_SpeakerInOwnSlot ==
    (engine = "generator" /\ pc \in {"details", "footer", "save", "upload"}) =>
        \A i \in 0..(Len(speaker_photos) - 1) :
            \E c \in 1..Len(circles) :
                /\ circles[c].i = i
                /\ circles[c].src = i
                /\ circles[c].x = PlannedX(i)
                /\ circles[c].y = PlannedY(i)

\* Every circle that is drawn shows the photo of its own speaker in that
\* speaker's slot, and the circles are drawn in the order of the speakers
DrawnSpeakersKeepTheirSlot ==
    engine = "generator" =>
        /\ \A c \in 1..Len(circles) :
              /\ circles[c].src = circles[c].i
              /\ circles[c].x = PlannedX(circles[c].i)
              /\ circles[c].y = PlannedY(circles[c].i)
              /\ speaker_photos[circles[c].i + 1] = "url"
        /\ \A c, d \in 1..Len(circles) : c < d => circles[c].i < circles[d].i

\* C14: whenever a render fails, the caller gets a structured error that
\* names the missing mandatory asset; the text of the raised exception is
\* never passed through as the error message.
C14_FailureIsStructuredError ==
    (outcome = "error" /\ response \notin {NoResponse, TimeoutResponse}) =>
        /\ response.message # "exception_text"
        /\ response.error_code # "none"

-----------------------------------------------------------------------------
(* Cover-crop: ImageService.crop_to_aspect and PosterComposer._resize_and_crop *)

MaxSide == 6

\* Source sizes: every small side, and the sides of common pictures
SourceSides == 1..MaxSide \cup {1080, 1200, 1600, 1920}

\* The target sizes the program crops to: the poster and the three circle sizes
TargetSizes == {<<width, height>>, <<320, 320>>, <<220, 220>>, <<160, 160>>}

\* image_service.py 22-35: the box handed to img.crop.  src_aspect >
\* target_aspect compares src_w / src_h with target_w / target_h;
\* int(target_aspect * src_h) and int(src_w / target_aspect) are the floors
\* of the exact quotients for these sizes.
crop_to_aspect(src_w, src_h, target_w, target_h) ==
    IF src_w * target_h > target_w * src_h
    THEN LET new_w == (target_w * src_h) \div target_h
             left  == (src_w - new_w) \div 2
         IN  [left |-> left, top |-> 0, right |-> left + new_w, bottom |-> src_h]
    ELSE LET new_h == (src_w * target_h) \div target_w
             top   == (src_h - new_h) \div 2
         IN  [left |-> 0, top |-> top, right |-> src_w, bottom |-> top + new_h]

\* poster_composer.py 790-811: the size the image is resized to and the box
\* then handed to image.crop
_resize_and_crop(image_width, image_height, target_width, target_height) ==
    LET wider      == image_width * target_height > target_width * image_height
        new_width  == IF wider THEN (target_height * image_width) \div image_height
                      ELSE target_width
        new_height == IF wider THEN target_height
                      ELSE (target_width * image_height) \div image_width
        left       == (new_width - target_width) \div 2
        top        == (new_height - target_height) \div 2
    IN  [new_width |-> new_width, new_height |-> new_height,
         left |-> left, top |-> top,
         right |-> left + target_width, bottom |-> top + target_height]

InitCrop ==
    /\ WrapIdle
    /\ GridIdle
    /\ RenderIdle
    /\ PhotoIdle
    /\ CityIdle
    /\ SpeakerIdle
    /\ TemplateIdle
    /\ CredIdle
    /\ ServiceIdle
    /\ RateIdle
    /\ cw \in SourceSides
    /\ ch \in SourceSides
    /\ \E t \in TargetSizes : ctw = t[1] /\ cth = t[2]
    /\ cran = {}
    /\ iwindow = <<>>
    /\ rwindow = <<>>

\* image_service.py 20-37: crop, then resize(target_size).  A crop box
\* without pixels gives an image of width or height 0; resizing it either
\* raises or returns an image of the target size, depending on the imaging
\* library.
ImageService_CropToAspect ==
    /\ "crop_to_aspect" \notin cran
    /\ LET box == crop_to_aspect(cw, ch, ctw, cth)
       IN  IF box.left < box.right /\ box.top < box.bottom
           THEN iwindow' = [box |-> box, out |-> <<ctw, cth>>]
           ELSE \/ iwindow' = [box |-> box, out |-> <<ctw, cth>>]
                \/ iwindow' = [box |-> box, out |-> <<>>]
    /\ cran' = cran \cup {"crop_to_aspect"}
    /\ UNCHANGED <<cw, ch, ctw, cth, rwindow>>
    /\ UNCHANGED <<wrapVars, gridVars, renderVars, photoVars, cityVars, speakerVars, templateVars, credVars, serviceVars, rateVars>>

\* poster_composer.py 787-811: resize, then crop; crop returns an image of
\* the size of its box
PosterComposer_ResizeAndCrop ==
    /\ "_resize_and_crop" \notin cran
    /\ LET r == _resize_and_crop(cw, ch, ctw, cth)
       IN  rwindow' = [box |-> r, out |-> <<r.right - r.left, r.bottom - r.top>>]
    /\ cran' = cran \cup {"_resize_and_crop"}
    /\ UNCHANGED <<cw, ch, ctw, cth, iwindow>>
    /\ UNCHANGED <<wrapVars, gridVars, renderVars, photoVars, cityVars, speakerVars, templateVars, credVars, serviceVars, rateVars>>

NextCrop == ImageService_CropToAspect \/ PosterComposer_ResizeAndCrop

SpecCrop == InitCrop /\ [][NextCrop]_vars

\* A crop box is non-empty, inside an image of size w x h, and its offsets
\* are the floor of half of what the image has more than the box
GoodWindow(box, w, h) ==
    /\ box.left < box.right
    /\ box.top < box.bottom
    /\ 0 <= box.left /\ box.right <= w
    /\ 0 <= box.top /\ box.bottom <= h
    /\ box.left = (w - (box.right - box.left)) \div 2
    /\ box.top = (h - (box.bottom - box.top)) \div 2

\* C16: for every source size w x h >= 1 and every target size both
\* cover-crop routines return an image of exactly the target size, and the
\* crop window is non-empty, inside the image it is applied to, with offsets
\* equal to the floor of half the overflow.
C16_CoverCropExact ==
    /\ "crop_to_aspect" \in cran =>
          /\ iwindow.out = <<ctw, cth>>
          /\ GoodWindow(iwindow.box, cw, ch)
    /\ "_resize_and_crop" \in cran =>
          /\ rwindow.out = <<ctw, cth>>
          /\ GoodWindow(rwindow.box, rwindow.box.new_width, rwindow.box.new_height)

\* PosterComposer._resize_and_crop alone meets the cover-crop contract
ResizeAndCropExact ==
    "_resize_and_crop" \in cran =>
        /\ rwindow.out = <<ctw, cth>>
        /\ GoodWindow(rwindow.box, rwindow.box.new_width, rwindow.box.new_height)

\* ImageService.crop_to_aspect meets it whenever its crop box has pixels
CropToAspectExactUnlessEmpty ==
    ("crop_to_aspect" \in cran
        /\ iwindow.box.left < iwindow.box.right /\ iwindow.box.top < iwindow.box.bottom) =>
        /\ iwindow.out = <<ctw, cth>>
        /\ GoodWindow(iwindow.box, cw, ch)

-----------------------------------------------------------------------------
(* Circle diameter, caption width and vertical order of compose_poster *)

\* C17: the circle diameter is a function of the speaker count only and
\* decreases with it: diameter(1) > diameter(2) > diameter(3) > diameter(4),
\* and diameter(n) = diameter(4) for every n >= 4.
C17_DiameterStrictlyDecreasing ==
    (gpc \in {"rows", "done"} /\ gn >= 1) =>
        /\ gsize = circle_size(gn)
        /\ \A m \in 1..4 : (gn < m) => gsize > circle_size(m)
        /\ gn >= 4 => gsize = circle_size(4)

\* The diameter never grows with the count and is constant from 3 speakers on
DiameterNeverGrows ==
    (gpc \in {"rows", "done"} /\ gn >= 1) =>
        /\ \A m \in 1..MaxGridSpeakers : (gn < m) => gsize >= circle_size(m)
        /\ gn >= 3 => gsize = circle_size(3)

\* The lines of a credential block: the name lines, then the rest lines
CaptionLines(caption) == caption.name_lines \o caption.rest_lines

\* C18: name and title/organization under a circle are each wrapped against
\* the circle's diameter, so no caption line of two or more words is wider
\* than the circle.
C18_CaptionLinesFitCircle ==
    \A c \in 1..Len(captions) :
        \A l \in 1..Len(CaptionLines(captions[c])) :
            LET line == CaptionLines(captions[c])[l]
            IN  \/ IsOneWord(line)
                \/ getbbox_width(line, PosterFont(font_small_size))
                       <= circle_size(Len(speaker_photos))

\* Every caption line of two or more words fits twice the circle's diameter
CaptionLinesFitTwiceCircle ==
    \A c \in 1..Len(captions) :
        \A l \in 1..Len(CaptionLines(captions[c])) :
            LET line == CaptionLines(captions[c])[l]
            IN  \/ IsOneWord(line)
                \/ getbbox_width(line, PosterFont(font_small_size))
                       <= Min(2 * circle_size(Len(speaker_photos)), content_width)

\* C19: the blocks are vertically non-overlapping and ordered title,
\* summary, speaker grid, event-detail lines, footer line; in particular
\* the footer line at height - margin - 210 does not start above the bottom
\* of the last event-detail line.
C19_BlocksOrderedTopToBottom ==
    (engine = "generator" /\ footer_y >= 0) =>
        /\ y_cursor >= margin_y
        /\ \A c \in 1..Len(circles) : circles[c].y >= y_cursor
        /\ detail_ys # <<>> =>
              /\ \A c \in 1..Len(circles) :
                    circles[c].y + circles[c].size <= detail_ys[1]
              /\ \A c \in 1..Len(captions) : captions[c].bottom <= detail_ys[1]
              /\ DetailLineBottom(detail_ys[Len(detail_ys)]) <= footer_y
        /\ \A c \in 1..Len(captions) : captions[c].bottom <= footer_y

\* The footer line starts at or below the bottom of the last detail line
FooterBelowDetails ==
    (engine = "generator" /\ footer_y >= 0 /\ detail_ys # <<>>) =>
        DetailLineBottom(detail_ys[Len(detail_ys)]) <= footer_y

\* C20: obtaining a font never fails a render; when a font file is missing
\* or cannot be loaded the default face is used and the render proceeds.
C20_FontNeverFailsRender ==
    failed_at # "fonts"

C26_UploadOnceAfterCompose ==
    /\ uploads <= 1
    /\ uploads = 1 =>
          /\ engine = "generator"
          /\ pc = "done"
          /\ outcome = "ok"
          /\ failed_at = "none"
          /\ background # "none"
          /\ footer_y = reg_y
    /\ failed_at \notin {"none", "upload"} => uploads = 0 /\ outcome \in {"error", "cancelled"}
    /\ pc = "upload" => uploads = 0 /\ footer_y = reg_y

C26_Witness ==
    /\ uploads = 1
    /\ pc = "done"
    /\ outcome = "ok"
    /\ Len(circles) >= 1
    /\ Len(detail_ys) >= 1
    /\ footer_y = reg_y

\* A render that failed while composing or saving has uploaded nothing
C26_FailedComposeReached ==
    /\ engine = "generator"
    /\ failed_at \in {"photo", "icon", "save"}
    /\ outcome = "error"
    /\ uploads = 0

-----------------------------------------------------------------------------
(* Every word is placed once; an over-wide word stands alone *)

\* The words of all lines, in order
RECURSIVE WordsOf(_)
WordsOf(lines) ==
    IF lines = <<>> THEN <<>> ELSE split(Head(lines)) \o WordsOf(Tail(lines))

\* The measured width never shrinks when a word is appended: for every run of
\* consecutive words of the text, the run joined with single spaces measures
\* at least what it measures without its last word.
WidthNeverShrinks ==
    LET words == split(wtext)
        Run(i, j) == JoinSpace(SubSeq(words, i, j))
    IN  \A i \in 1..Len(words) : \A j \in i..Len(words) :
            getbbox_width(Run(i, j), wfont) >= getbbox_width(Run(i, j - 1), wfont)

\* Every line that holds a word wider than max_width holds nothing else
WideWordsAlone(lines) ==
    \A i \in 1..Len(lines) :
        (\E k \in 1..Len(split(lines[i])) :
            getbbox_width(split(lines[i])[k], wfont) > wmax) => IsOneWord(lines[i])

\* C24: the wrapping loops end for every text after taking each word of
\* the text exactly once (the words of the returned lines are the words of
\* the text, in order, none lost, repeated or split), also when a word is
\* wider than max_width; if the measured width never shrinks when a word is
\* appended, such a word is a line of its own.
C24_EachWordOnceWideWordAlone ==
    /\ "generator" \in wran =>
          /\ WordsOf(glines) = split(wtext)
          /\ WidthNeverShrinks => WideWordsAlone(glines)
    /\ "composer" \in wran =>
          /\ WordsOf(clines) = split(wtext)
          /\ WidthNeverShrinks => WideWordsAlone(clines)

\* C24 witness: both routines returned a middle line that is one over-wide
\* word, between a line before it and a line after it.
C24_Witness ==
    /\ wran = {"generator", "composer"}
    /\ WidthNeverShrinks
    /\ Len(glines) = 3 /\ Len(clines) = 3
    /\ IsOneWord(glines[2]) /\ getbbox_width(glines[2], wfont) > wmax
    /\ IsOneWord(clines[2]) /\ getbbox_width(clines[2], wfont) > wmax
    /\ getbbox_width(glines[1], wfont) <= wmax

-----------------------------------------------------------------------------
(* The two wrapping routines compared *)

\* C30: wrap_text / draw_wrapped_text of the generator and
\* PosterComposer._wrap_text return the same sequence of lines for every
\* text, width function and max width.
C30_WrapRoutinesAgree ==
    wran = {"generator", "composer"} => glines = clines

\* C30 witness: both routines returned the same three lines, the first of
\* them a single word wider than max_width.
C30_Witness ==
    /\ wran = {"generator", "composer"}
    /\ glines = clines
    /\ Len(glines) = 3
    /\ getbbox_width(glines[1], wfont) > wmax

-----------------------------------------------------------------------------
(* The speakers grid of PosterComposer (poster_composer.py 347-374, 589-600) *)

MaxTemplateSpeakers == 13

\* poster_composer.py 589-600
_calculate_speaker_layout(count) ==
    IF count <= 2 THEN [rows |-> 1, cols |-> count]
    ELSE IF count <= 4 THEN [rows |-> 2, cols |-> 2]
    ELSE IF count <= 6 THEN [rows |-> 2, cols |-> 3]
    ELSE IF count <= 9 THEN [rows |-> 3, cols |-> 3]
    ELSE [rows |-> 4, cols |-> 3]

InitTemplate ==
    /\ WrapIdle
    /\ GridIdle
    /\ RenderIdle
    /\ PhotoIdle
    /\ CropIdle
    /\ CityIdle
    /\ SpeakerIdle
    /\ CredIdle
    /\ ServiceIdle
    /\ RateIdle
    /\ tpc = "start"
    /\ speaker_count \in 0..MaxTemplateSpeakers
    /\ layout = [rows |-> 0, cols |-> 0]
    /\ cells = <<>>

\* poster_composer.py 349-350: without speakers the poster is returned as it is
Template_NoSpeakers ==
    /\ tpc = "start"
    /\ speaker_count = 0
    /\ tpc' = "done"
    /\ UNCHANGED <<speaker_count, layout, cells>>
    /\ UNCHANGED <<wrapVars, gridVars, renderVars, photoVars, cropVars, cityVars, speakerVars, credVars, serviceVars, rateVars>>

\* poster_composer.py 353-354: layout = self._calculate_speaker_layout(speaker_count)
Template_Layout ==
    /\ tpc = "start"
    /\ speaker_count > 0
    /\ layout' = _calculate_speaker_layout(speaker_count)
    /\ tpc' = "cells"
    /\ UNCHANGED <<speaker_count, cells>>
    /\ UNCHANGED <<wrapVars, gridVars, renderVars, photoVars, cropVars, cityVars, speakerVars, credVars, serviceVars, rateVars>>

\* poster_composer.py 364-372: one iteration of the loop over the speakers,
\* row = i // cols, col = i % cols
Template_Cell ==
    /\ tpc = "cells"
    /\ Len(cells) < speaker_count
    /\ LET i == Len(cells)
       IN  cells' = Append(cells, [i |-> i, row |-> i \div layout.cols, col |-> i % layout.cols])
    /\ UNCHANGED <<tpc, speaker_count, layout>>
    /\ UNCHANGED <<wrapVars, gridVars, renderVars, photoVars, cropVars, cityVars, speakerVars, credVars, serviceVars, rateVars>>

\* poster_composer.py 374: return poster
Template_Return ==
    /\ tpc = "cells"
    /\ Len(cells) = speaker_count
    /\ tpc' = "done"
    /\ UNCHANGED <<speaker_count, layout, cells>>
    /\ UNCHANGED <<wrapVars, gridVars, renderVars, photoVars, cropVars, cityVars, speakerVars, credVars, serviceVars, rateVars>>

NextTemplate == Template_NoSpeakers \/ Template_Layout \/ Template_Cell \/ Template_Return

SpecTemplate == InitTemplate /\ [][NextTemplate]_vars

\* C25: for every speaker count >= 1 the layout has rows * cols >= count,
\* and every speaker is put into a cell whose row is below rows.
C25_LayoutHoldsEverySpeaker ==
    tpc \in {"cells", "done"} /\ speaker_count >= 1 =>
        /\ layout.rows * layout.cols >= speaker_count
        /\ \A c \in 1..Len(cells) : cells[c].row < layout.rows

\* Up to twelve speakers the layout holds every speaker, each in a cell of
\* its own.
LayoutHoldsUpToTwelve ==
    tpc \in {"cells", "done"} /\ speaker_count \in 1..12 =>
        /\ layout.rows * layout.cols >= speaker_count
        /\ \A c \in 1..Len(cells) : cells[c].row < layout.rows /\ cells[c].col < layout.cols
        /\ \A c, d \in 1..Len(cells) :
              (cells[c].row = cells[d].row /\ cells[c].col = cells[d].col) => c = d

LayoutTwelveReached ==
    tpc = "done" /\ speaker_count = 12 /\ Len(cells) = 12 /\ cells[12].row = 3

-----------------------------------------------------------------------------
(* Speaker names and credentials of PosterGenerator.generate                 *)
(* (generator.py 24-32, 68, 81, 160-177). A line is a sequence of tokens:    *)
(* a numbering ("1."), words and commas.                                     *)

MaxCredLines == 3

NumberTokens == {"1.", "2)"}

\* re.sub(r"^\s*\d+\s*[\.|\)]?\s*", "", line): one leading numbering is removed
StripNumbering(line) ==
    IF line # <<>> /\ Head(line) \in NumberTokens THEN Tail(line) ELSE line

\* name.split(",")[0].strip(): what stands before the first comma
RECURSIVE BeforeComma(_)
BeforeComma(line) ==
    IF line = <<>> \/ Head(line) = "," THEN <<>>
    ELSE <<Head(line)>> \o BeforeComma(Tail(line))

\* generator.py 28-30: the name taken from a line
NameOfLine(line) == BeforeComma(StripNumbering(line))

\* generator.py 26-32: the names of the lines that give a non-empty name, each
\* with the number of its line
RECURSIVE NamesFrom(_, _)
NamesFrom(lines, k) ==
    IF k > Len(lines) THEN <<>>
    ELSE (IF NameOfLine(lines[k]) # <<>>
          THEN <<[name |-> NameOfLine(lines[k]), line |-> k]>> ELSE <<>>)
         \o NamesFrom(lines, k + 1)

CredLineBlank == <<>>
CredLineAnn == <<"1.", "Ann", "Lee", ",", "CEO">>
CredLineBob == <<"Bob", ",", "CTO">>
CredLineNoName == <<",", "Chair">>
CredLinePool == {CredLineBlank, CredLineAnn, CredLineBob, CredLineNoName}

\* str.split("\n") of an answer: at least one line, the empty answer gives
\* one empty line
Answers == UNION {[1..n -> CredLinePool] : n \in 1..MaxCredLines}

InitCreds ==
    /\ WrapIdle
    /\ GridIdle
    /\ RenderIdle
    /\ PhotoIdle
    /\ CropIdle
    /\ CityIdle
    /\ SpeakerIdle
    /\ TemplateIdle
    /\ ServiceIdle
    /\ RateIdle
    /\ kpc = "start"
    /\ speaker_lines = <<>>
    /\ speaker_names = <<>>
    /\ cred_lines = <<>>
    /\ kpairs = <<>>
    /\ kerror = "none"

\* generator.py 24-32 and 68: the first answer of the collaborator is split
\* into lines, the names are taken from them and a photo is looked up for
\* every name, so len(speaker_photos) = len(speaker_names)
Generate_SpeakerNames ==
    /\ kpc = "start"
    /\ \E answer \in Answers :
          /\ speaker_lines' = answer
          /\ speaker_names' = NamesFrom(answer, 1)
    /\ kpc' = "credentials"
    /\ UNCHANGED <<cred_lines, kpairs, kerror>>
    /\ UNCHANGED <<wrapVars, gridVars, renderVars, photoVars, cropVars, cityVars, speakerVars, templateVars, serviceVars, rateVars>>

\* generator.py 81: credentials are the lines of a second answer of the
\* collaborator to the same question; no line is dropped
Generate_Credentials ==
    /\ kpc = "credentials"
    /\ \E answer \in Answers : cred_lines' = answer
    /\ kpc' = "speakers"
    /\ UNCHANGED <<speaker_lines, speaker_names, kpairs, kerror>>
    /\ UNCHANGED <<wrapVars, gridVars, renderVars, photoVars, cropVars, cityVars, speakerVars, templateVars, serviceVars, rateVars>>

\* generator.py 160-177: speaker i of the grid; cred = credentials[i] raises
\* IndexError when the list is shorter
Compose_SpeakerCredential ==
    /\ kpc = "speakers"
    /\ Len(kpairs) < Len(speaker_names)
    /\ LET i == Len(kpairs) + 1
       IN  IF i > Len(cred_lines)
           THEN /\ kerror' = "IndexError"
                /\ kpc' = "done"
                /\ UNCHANGED kpairs
           ELSE /\ kpairs' = Append(kpairs, [name |-> speaker_names[i].name,
                                              line |-> speaker_names[i].line,
                                              cred |-> cred_lines[i]])
                /\ UNCHANGED <<kpc, kerror>>
    /\ UNCHANGED <<speaker_lines, speaker_names, cred_lines>>
    /\ UNCHANGED <<wrapVars, gridVars, renderVars, photoVars, cropVars, cityVars, speakerVars, templateVars, serviceVars, rateVars>>

\* generator.py 154-216: the loops end after the last speaker
Compose_SpeakersDone ==
    /\ kpc = "speakers"
    /\ Len(kpairs) = Len(speaker_names)
    /\ kpc' = "done"
    /\ UNCHANGED <<speaker_lines, speaker_names, cred_lines, kpairs, kerror>>
    /\ UNCHANGED <<wrapVars, gridVars, renderVars, photoVars, cropVars, cityVars, speakerVars, templateVars, serviceVars, rateVars>>

NextCreds ==
    \/ Generate_SpeakerNames
    \/ Generate_Credentials
    \/ Compose_SpeakerCredential
    \/ Compose_SpeakersDone

SpecCreds == InitCreds /\ [][NextCreds]_vars

\* C27: for every speaker index the entry credentials[i] exists (no index
\* is out of range) and is the credential line from which the name and
\* the photo lookup of speaker i were derived, whatever the two answers of
\* the collaborator are (blank lines included).
C27_CredentialOfOwnLine ==
    /\ kerror = "none"
    /\ \A i \in 1..Len(kpairs) : kpairs[i].cred = speaker_lines[kpairs[i].line]

\* When the two answers are the same and every line of them gives a name,
\* every speaker gets the line its name was taken from.
CredentialOfOwnLineWhenClean ==
    (/\ kpc \in {"speakers", "done"}
     /\ cred_lines = speaker_lines
     /\ Len(speaker_names) = Len(speaker_lines)) =>
        /\ kerror = "none"
        /\ \A i \in 1..Len(kpairs) : kpairs[i].cred = speaker_lines[kpairs[i].line]

CleanAnswersReached ==
    /\ kpc = "done"
    /\ cred_lines = speaker_lines
    /\ Len(kpairs) = 3

-----------------------------------------------------------------------------
(* BaseService.initialize under concurrent callers (base_service.py 11-24,   *)
(* font_service.py 133-142, wordpress_service.py 19-34, 346-351). The tasks  *)
(* run on one event loop: a task is left only at an await that suspends.     *)

MaxTasks == 3
MaxCleanups == 1

Tasks == 1..MaxTasks

\* The services and settings: FontService._initialize (font_service.py 14-80)
\* has no await; WordPressService._initialize raises ValueError without
\* WORDPRESS_URL, awaits the login requests when credentials are configured
\* and has no await otherwise.
Services == {"font", "wp_no_url", "wp_no_credentials", "wp_credentials"}

InitService ==
    /\ WrapIdle
    /\ GridIdle
    /\ RenderIdle
    /\ PhotoIdle
    /\ CropIdle
    /\ CityIdle
    /\ SpeakerIdle
    /\ TemplateIdle
    /\ CredIdle
    /\ RateIdle
    /\ service \in Services
    /\ _initialized = FALSE
    /\ _font_service = "None"
    /\ ipc = [t \in Tasks |-> "idle"]
    /\ body_runs = 0
    /\ body_done = 0
    /\ cleanups = 0

\* The part of initialize() that a task runs before it is suspended or
\* returns: the test of line 13 and _initialize up to its first await
EnterInitialize(t) ==
    IF _initialized
    THEN /\ ipc' = [ipc EXCEPT ![t] = "returned"]
         /\ UNCHANGED <<_initialized, body_runs, body_done>>
    ELSE /\ body_runs' = body_runs + 1
         /\ IF service = "wp_no_url"
            THEN /\ ipc' = [ipc EXCEPT ![t] = "raised"]
                 /\ UNCHANGED <<_initialized, body_done>>
            ELSE IF service = "wp_credentials"
            THEN /\ ipc' = [ipc EXCEPT ![t] = "awaiting"]
                 /\ UNCHANGED <<_initialized, body_done>>
            ELSE /\ ipc' = [ipc EXCEPT ![t] = "returned"]
                 /\ _initialized' = TRUE
                 /\ body_done' = body_done + 1

\* base_service.py 11-15: a task calls initialize() of the WordPressService
Service_Initialize ==
    /\ service # "font"
    /\ \E t \in Tasks :
          /\ ipc[t] = "idle"
          /\ EnterInitialize(t)
    /\ UNCHANGED <<service, _font_service, cleanups>>
    /\ UNCHANGED <<wrapVars, gridVars, renderVars, photoVars, cropVars, cityVars, speakerVars, templateVars, credVars, rateVars>>

\* font_service.py 136-142: a task calls get_font_service(); the first caller
\* creates the instance and initializes it, later callers get the instance
Service_GetFontService ==
    /\ service = "font"
    /\ \E t \in Tasks :
          /\ ipc[t] = "idle"
          /\ IF _font_service = "None"
             THEN /\ _font_service' = "instance"
                  /\ EnterInitialize(t)
             ELSE /\ ipc' = [ipc EXCEPT ![t] = "returned"]
                  /\ UNCHANGED <<_font_service, _initialized, body_runs, body_done>>
    /\ UNCHANGED <<service, cleanups>>
    /\ UNCHANGED <<wrapVars, gridVars, renderVars, photoVars, cropVars, cityVars, speakerVars, templateVars, credVars, rateVars>>

\* wordpress_service.py 32-34 and base_service.py 15: the awaited login
\* returns (its own errors are caught inside _authenticate_session),
\* _initialize returns and initialize() sets _initialized
Service_Resume ==
    /\ \E t \in Tasks :
          /\ ipc[t] = "awaiting"
          /\ ipc' = [ipc EXCEPT ![t] = "returned"]
    /\ _initialized' = TRUE
    /\ body_done' = body_done + 1
    /\ UNCHANGED <<service, _font_service, body_runs, cleanups>>
    /\ UNCHANGED <<wrapVars, gridVars, renderVars, photoVars, cropVars, cityVars, speakerVars, templateVars, credVars, rateVars>>

\* wordpress_service.py 346-351: cleanup() of the WordPressService, called
\* when no initialize() is under way; afterwards the tasks may call again
Service_Cleanup ==
    /\ service # "font"
    /\ cleanups < MaxCleanups
    /\ \A t \in Tasks : ipc[t] # "awaiting"
    /\ \E t \in Tasks : ipc[t] # "idle"
    /\ _initialized' = FALSE
    /\ body_runs' = 0
    /\ body_done' = 0
    /\ ipc' = [t \in Tasks |-> "idle"]
    /\ cleanups' = cleanups + 1
    /\ UNCHANGED <<service, _font_service>>
    /\ UNCHANGED <<wrapVars, gridVars, renderVars, photoVars, cropVars, cityVars, speakerVars, templateVars, credVars, rateVars>>

NextService ==
    \/ Service_Initialize
    \/ Service_GetFontService
    \/ Service_Resume
    \/ Service_Cleanup

SpecService == InitService /\ [][NextService]_vars

\* C28: under every interleaving of concurrent initialize() calls the
\* _initialize body of a service runs at most once between cleanups,
\* is_initialized() is true only after _initialize has returned without
\* error, and a failed _initialize leaves the service uninitialized.
\* (A new run after a run that raised is not counted against the claim: at
\* no time are two runs of the body under way, and at most one run returns.)
C28_InitializeRunsOnce ==
    /\ Cardinality({t \in Tasks : ipc[t] = "awaiting"}) <= 1
    /\ body_done <= 1
    /\ _initialized => body_done >= 1
    /\ (\E t \in Tasks : ipc[t] = "raised") => ~_initialized

\* What holds for every service: initialized only after a normal return of
\* _initialize, never after a failed one; and the body runs once when it has
\* no await that suspends (font singleton, WordPress without credentials).
InitializedOnlyAfterBody ==
    /\ _initialized => body_done >= 1
    /\ (\E t \in Tasks : ipc[t] = "raised") => ~_initialized
    /\ service \in {"font", "wp_no_credentials"} => body_runs <= 1

InitializedOnceReached ==
    /\ service = "font"
    /\ _initialized
    /\ body_runs = 1
    /\ \A t \in Tasks : ipc[t] = "returned"

-----------------------------------------------------------------------------
(* check_rate_limit (main.py 252-268) with UpstashRateLimiter and            *)
(* MemoryRateLimiter (upstash_service.py). All requests come from one client *)
(* within one window, so no entry expires.                                   *)

MaxRequests == 4
MaxClock == 1

\* settings.RATE_LIMIT_REQUESTS, scaled down
RATE_LIMIT_REQUESTS == 2

Requests == 1..MaxRequests

InitRate ==
    /\ WrapIdle
    /\ GridIdle
    /\ RenderIdle
    /\ PhotoIdle
    /\ CropIdle
    /\ CityIdle
    /\ SpeakerIdle
    /\ TemplateIdle
    /\ CredIdle
    /\ ServiceIdle
    /\ limiter \in {"upstash", "memory"}
    /\ rpc = [r \in Requests |-> "idle"]
    /\ zset = {}
    /\ counters = <<>>
    /\ clock = 0
    /\ admitted = 0

\* main.py 257-268 with the MemoryRateLimiter (upstash_service.py 166-207):
\* neither get_current_count nor increment_counter has an await that
\* suspends, so check and increment of one request run without interruption
Rate_MemoryCheckAndIncrement ==
    /\ limiter = "memory"
    /\ \E r \in Requests :
          /\ rpc[r] = "idle"
          /\ IF Len(counters) < RATE_LIMIT_REQUESTS
             THEN /\ counters' = Append(counters, clock)
                  /\ admitted' = admitted + 1
                  /\ rpc' = [rpc EXCEPT ![r] = "admitted"]
             ELSE /\ rpc' = [rpc EXCEPT ![r] = "rejected"]
                  /\ UNCHANGED <<counters, admitted>>
    /\ UNCHANGED <<limiter, zset, clock>>
    /\ UNCHANGED <<wrapVars, gridVars, renderVars, photoVars, cropVars, cityVars, speakerVars, templateVars, credVars, serviceVars>>

\* main.py 257-262 and upstash_service.py 34-45, 87-104: the count is read
\* with one request to Redis (ZCARD); the request is let on when it is below
\* the limit, and also when the read failed (get_current_count returns 0)
Rate_UpstashCheck ==
    /\ limiter = "upstash"
    /\ \E r \in Requests :
          /\ rpc[r] = "idle"
          /\ \E current_count \in {Cardinality(zset), 0} :
                rpc' = [rpc EXCEPT ![r] = IF current_count < RATE_LIMIT_REQUESTS
                                          THEN "checked" ELSE "rejected"]
    /\ UNCHANGED <<limiter, zset, counters, clock, admitted>>
    /\ UNCHANGED <<wrapVars, gridVars, renderVars, photoVars, cropVars, cityVars, speakerVars, templateVars, credVars, serviceVars>>

\* main.py 264-268 and upstash_service.py 47-73: a second request to Redis
\* adds the member f"{current_time}_{hash(key)}" (ZADD keeps one entry per
\* member) or fails, which is caught; either way the request is let through
Rate_UpstashIncrement ==
    /\ limiter = "upstash"
    /\ \E r \in Requests :
          /\ rpc[r] = "checked"
          /\ rpc' = [rpc EXCEPT ![r] = "admitted"]
    /\ zset' \in {zset \cup {clock}, zset}
    /\ admitted' = admitted + 1
    /\ UNCHANGED <<limiter, counters, clock>>
    /\ UNCHANGED <<wrapVars, gridVars, renderVars, photoVars, cropVars, cityVars, speakerVars, templateVars, credVars, serviceVars>>

\* time.time() moves on to the next second
Rate_Tick ==
    /\ limiter # "none"
    /\ clock < MaxClock
    /\ clock' = clock + 1
    /\ UNCHANGED <<limiter, rpc, zset, counters, admitted>>
    /\ UNCHANGED <<wrapVars, gridVars, renderVars, photoVars, cropVars, cityVars, speakerVars, templateVars, credVars, serviceVars>>

NextRate ==
    \/ Rate_MemoryCheckAndIncrement
    \/ Rate_UpstashCheck
    \/ Rate_UpstashIncrement
    \/ Rate_Tick

SpecRate == InitRate /\ [][NextRate]_vars

\* C29: for a client and a window, the number of requests admitted by the
\* check_rate_limit dependency never exceeds the configured limit, under
\* every interleaving of concurrent requests of that client.
C29_AdmittedWithinLimit ==
    admitted <= RATE_LIMIT_REQUESTS

\* With the MemoryRateLimiter the limit is kept and every request beyond it
\* is rejected.
MemoryLimiterKeepsLimit ==
    limiter = "memory" =>
        /\ admitted <= RATE_LIMIT_REQUESTS
        /\ admitted = Len(counters)
        /\ (\E r \in Requests : rpc[r] = "rejected") => admitted = RATE_LIMIT_REQUESTS

MemoryLimitReached ==
    /\ limiter = "memory"
    /\ admitted = RATE_LIMIT_REQUESTS
    /\ \E r \in Requests : rpc[r] = "rejected"

-----------------------------------------------------------------------------
(* extract_city_country (main.py 26-69) *)

MaxWords == 2

Uppercase == <<"A", "B", "C", "D", "E", "F", "G", "H", "I", "J", "K", "L", "M", "N", "O", "P", "Q", "R", "S", "T", "U", "V", "W", "X", "Y", "Z">>
Lowercase == <<"a", "b", "c", "d", "e", "f", "g", "h", "i", "j", "k", "l", "m", "n", "o", "p", "q", "r", "s", "t", "u", "v", "w", "x", "y", "z">>

\* str.lower() on ASCII text
AsciiLower(c) ==
    IF \E k \in 1..Len(Uppercase) : Uppercase[k] = c
    THEN Lowercase[CHOOSE k \in 1..Len(Uppercase) : Uppercase[k] = c]
    ELSE c
str_lower(s) == [k \in 1..Len(s) |-> AsciiLower(s[k])]

\* `key in text`: key is a substring of text
Contains(text, key) ==
    \E k \in 0..(Len(text) - Len(key)) : SubSeq(text, k + 1, k + Len(key)) = key

\* main.py 32-61: the dict, in the order of its entries
city_mappings == <<
    [key |-> <<"k", "u", "a", "l", "a", " ", "l", "u", "m", "p", "u", "r">>,
     city |-> "Kuala Lumpur", country |-> "Malaysia"],
    [key |-> <<"k", "l">>,
     city |-> "Kuala Lumpur", country |-> "Malaysia"],
    [key |-> <<"m", "u", "m", "b", "a", "i">>,
     city |-> "Mumbai", country |-> "India"],
    [key |-> <<"v", "a", "s", "w", "a", "n", "i">>,
     city |-> "Mumbai", country |-> "India"],
    [key |-> <<"b", "a", "n", "g", "a", "l", "o", "r", "e">>,
     city |-> "Bangalore", country |-> "India"],
    [key |-> <<"b", "e", "n", "g", "a", "l", "u", "r", "u">>,
     city |-> "Bangalore", country |-> "India"],
    [key |-> <<"d", "e", "l", "h", "i">>,
     city |-> "Delhi", country |-> "India"],
    [key |-> <<"g", "u", "r", "g", "a", "o", "n">>,
     city |-> "Gurgaon", country |-> "India"],
    [key |-> <<"m", "a", "n", "i", "l", "a">>,
     city |-> "Manila", country |-> "Philippines"],
    [key |-> <<"m", "e", "t", "r", "o", " ", "m", "a", "n", "i", "l", "a">>,
     city |-> "Manila", country |-> "Philippines"],
    [key |-> <<"s", "i", "n", "g", "a", "p", "o", "r", "e">>,
     city |-> "Singapore", country |-> "Singapore"],
    [key |-> <<"b", "a", "n", "g", "k", "o", "k">>,
     city |-> "Bangkok", country |-> "Thailand"],
    [key |-> <<"j", "a", "k", "a", "r", "t", "a">>,
     city |-> "Jakarta", country |-> "Indonesia"],
    [key |-> <<"h", "o", "n", "g", " ", "k", "o", "n", "g">>,
     city |-> "Hong Kong", country |-> "Hong Kong"],
    [key |-> <<"h", "o", " ", "c", "h", "i", " ", "m", "i", "n", "h">>,
     city |-> "Ho Chi Minh City", country |-> "Vietnam"],
    [key |-> <<"s", "a", "i", "g", "o", "n">>,
     city |-> "Ho Chi Minh City", country |-> "Vietnam"],
    [key |-> <<"h", "a", "n", "o", "i">>,
     city |-> "Hanoi", country |-> "Vietnam"],
    [key |-> <<"t", "a", "i", "p", "e", "i">>,
     city |-> "Taipei", country |-> "Taiwan"],
    [key |-> <<"s", "e", "o", "u", "l">>,
     city |-> "Seoul", country |-> "South Korea"],
    [key |-> <<"t", "o", "k", "y", "o">>,
     city |-> "Tokyo", country |-> "Japan"],
    [key |-> <<"o", "s", "a", "k", "a">>,
     city |-> "Osaka", country |-> "Japan"],
    [key |-> <<"s", "y", "d", "n", "e", "y">>,
     city |-> "Sydney", country |-> "Australia"],
    [key |-> <<"m", "e", "l", "b", "o", "u", "r", "n", "e">>,
     city |-> "Melbourne", country |-> "Australia"],
    [key |-> <<"a", "u", "c", "k", "l", "a", "n", "d">>,
     city |-> "Auckland", country |-> "New Zealand"],
    [key |-> <<"l", "o", "n", "d", "o", "n">>,
     city |-> "London", country |-> "UK"],
    [key |-> <<"n", "e", "w", " ", "y", "o", "r", "k">>,
     city |-> "New York", country |-> "USA"],
    [key |-> <<"s", "a", "n", " ", "f", "r", "a", "n", "c", "i", "s", "c", "o">>,
     city |-> "San Francisco", country |-> "USA"],
    [key |-> <<"c", "h", "i", "c", "a", "g", "o">>,
     city |-> "Chicago", country |-> "USA"] >>

\* main.py 63-69: the keys are visited in the order of the dict; the first
\* key found in the venue or in the title decides; otherwise the fallback
extract_city_country(venue, title) ==
    LET venue_lower == str_lower(venue)
        title_lower == str_lower(title)
        found == {k \in 1..Len(city_mappings) :
                     \/ Contains(venue_lower, city_mappings[k].key)
                     \/ Contains(title_lower, city_mappings[k].key)}
    IN  IF found = {} THEN <<"Manila", "Philippines">>
        ELSE LET k == CHOOSE k \in found : \A m \in found : k <= m
             IN  <<city_mappings[k].city, city_mappings[k].country>>

\* Words venues and titles are made of
CityWords == { <<"M", "u", "m", "b", "a", "i">>, <<"K", "L">>, <<"M", "a", "n", "i", "l", "a">>, <<"H", "a", "l", "l">>, <<"O", "a", "k", "l", "a", "n", "d">> }

\* Texts of at most n words, joined by single spaces
RECURSIVE WordTexts(_)
WordTexts(n) ==
    IF n = 0 THEN {<<>>}
    ELSE WordTexts(n - 1) \cup CityWords
         \cup {t \o <<" ">> \o w : t \in WordTexts(n - 1) \ {<<>>}, w \in CityWords}

InitCity ==
    /\ WrapIdle
    /\ GridIdle
    /\ RenderIdle
    /\ PhotoIdle
    /\ CropIdle
    /\ SpeakerIdle
    /\ TemplateIdle
    /\ CredIdle
    /\ ServiceIdle
    /\ RateIdle
    /\ evenue \in WordTexts(MaxWords)
    /\ etitle \in WordTexts(MaxWords)
    /\ eresult = <<>>

\* main.py 367: city, country = extract_city_country(request.venue, request.title)
ExtractCityCountry ==
    /\ eresult = <<>>
    /\ eresult' = extract_city_country(evenue, etitle)
    /\ UNCHANGED <<evenue, etitle>>
    /\ UNCHANGED <<wrapVars, gridVars, renderVars, photoVars, cropVars, speakerVars, templateVars, credVars, serviceVars, rateVars>>

NextCity == ExtractCityCountry

SpecCity == InitCity /\ [][NextCity]_vars

\* The (city, country) pairs mapped from the keys a text contains
PlacesIn(text) ==
    {<<city_mappings[k].city, city_mappings[k].country>> :
        k \in {m \in 1..Len(city_mappings) : Contains(str_lower(text), city_mappings[m].key)}}

\* C21: the venue is checked before the title: when the venue contains a
\* known key the result is mapped from a key of the venue, whatever the
\* title contains; the title decides only when the venue contains no key;
\* the fallback (Manila, Philippines) is returned only when neither text
\* contains a key.
C21_VenueBeforeTitle ==
    eresult # <<>> =>
        /\ PlacesIn(evenue) # {} => eresult \in PlacesIn(evenue)
        /\ (PlacesIn(evenue) = {} /\ PlacesIn(etitle) # {}) => eresult \in PlacesIn(etitle)
        /\ (PlacesIn(evenue) = {} /\ PlacesIn(etitle) = {}) =>
              eresult = <<"Manila", "Philippines">>

\* The result is always mapped from a key of the venue or of the title, and
\* is the fallback when there is none
ResultFromVenueOrTitle ==
    eresult # <<>> =>
        IF PlacesIn(evenue) \cup PlacesIn(etitle) = {}
        THEN eresult = <<"Manila", "Philippines">>
        ELSE eresult \in PlacesIn(evenue) \cup PlacesIn(etitle)

-----------------------------------------------------------------------------
(* parse_speakers_from_text (main.py 71-151).  A line of the text is the   *)
(* sequence of its words; a comma is a word of its own.                    *)

MaxLines == 3

\* [A-Z][a-z]+ : a capitalised word
CapWords == {"Joel", "Pannikot", "Yohan", "Singh", "Ann", "Lee"}

\* The number of capitalised words in a row from position i on
RECURSIVE CapRun(_, _)
CapRun(line, i) ==
    IF i <= Len(line) /\ line[i] \in CapWords THEN 1 + CapRun(line, i + 1) ELSE 0

\* ([A-Z][a-z]+(?:\s+[A-Z][a-z]+)+) followed by one of the words after:
\* two or more capitalised words from position i, then such a word
MatchAt(line, i, after) ==
    /\ CapRun(line, i) >= 2
    /\ i + CapRun(line, i) <= Len(line)
    /\ line[i + CapRun(line, i)] \in after

\* main.py 99-103: name_patterns; the first is anchored at the start of the line
name_patterns ==
    << [anchored |-> TRUE,  after |-> {",", "the", "is", "was"}],
       [anchored |-> FALSE, after |-> {"boasts", "has", "brings"}],
       [anchored |-> FALSE, after |-> {"continues"}] >>

\* re.search(pattern, line): group(1) of the leftmost match, <<>> without match
search(pattern, line) ==
    LET starts == IF pattern.anchored THEN {1} ELSE 1..Len(line)
        hits   == {i \in starts : MatchAt(line, i, pattern.after)}
    IN  IF hits = {} THEN <<>>
        ELSE LET i == CHOOSE i \in hits : \A m \in hits : i <= m
             IN  SubSeq(line, i, i + CapRun(line, i) - 1)

\* main.py 111-149: the patterns are tried in order on one line; a match
\* that names the community leader goes on to the next pattern; the first
\* other match is the speaker of the line (<<>> when there is none)
RECURSIVE SpeakerOfLine(_, _, _)
SpeakerOfLine(line, k, community_leader) ==
    IF k > Len(name_patterns) THEN <<>>
    ELSE LET speaker_name == search(name_patterns[k], line)
         IN  IF speaker_name = <<>> \/ speaker_name = community_leader
             THEN SpeakerOfLine(line, k + 1, community_leader)
             ELSE speaker_name

\* main.py 105-149: the loop over the lines
RECURSIVE ParseLines(_, _, _)
ParseLines(lines, speakers, community_leader) ==
    IF lines = <<>> THEN speakers
    ELSE LET speaker_name == SpeakerOfLine(Head(lines), 1, community_leader)
         IN  ParseLines(Tail(lines),
                        IF speaker_name = <<>> THEN speakers
                        ELSE Append(speakers, speaker_name),
                        community_leader)

\* main.py 71-151: an empty text returns at once; otherwise the community
\* leader is added first, then the speakers of the lines
parse_speakers_from_text(speakers_text, community_leader) ==
    IF speakers_text = <<>> THEN <<>>
    ELSE ParseLines(speakers_text,
                    IF community_leader # <<>> THEN <<community_leader>> ELSE <<>>,
                    community_leader)

\* Lines a speakers text is made of
LineComma    == <<"Joel", "Pannikot", ",", "the">>
LineBoasts   == <<"Joel", "Pannikot", "boasts">>
LineLeader   == <<"Yohan", "Singh", "continues">>
LineAnn      == <<"then", "Ann", "Lee", "brings">>
LineNoMatch  == <<"Joel", "spoke">>
LineBlank    == <<>>
LinePool     == {LineComma, LineBoasts, LineLeader, LineAnn, LineNoMatch, LineBlank}
LeaderPool   == {<<>>, <<"Yohan", "Singh">>, <<"Joel", "Pannikot">>}

InitSpeakers ==
    /\ WrapIdle
    /\ GridIdle
    /\ RenderIdle
    /\ PhotoIdle
    /\ CropIdle
    /\ CityIdle
    /\ TemplateIdle
    /\ CredIdle
    /\ ServiceIdle
    /\ RateIdle
    /\ stext \in SeqsUpTo(LinePool, MaxLines)
    /\ sleader \in LeaderPool
    /\ sresult = <<>>
    /\ sdone = FALSE

\* main.py 385: speakers = parse_speakers_from_text(request.speakers, request.community_leader)
ParseSpeakers ==
    /\ ~sdone
    /\ sresult' = parse_speakers_from_text(stext, sleader)
    /\ sdone' = TRUE
    /\ UNCHANGED <<stext, sleader>>
    /\ UNCHANGED <<wrapVars, gridVars, renderVars, photoVars, cropVars, cityVars, templateVars, credVars, serviceVars, rateVars>>

NextSpeakers == ParseSpeakers

SpecSpeakers == InitSpeakers /\ [][NextSpeakers]_vars

\* How often a name occurs in a sequence of names
Occurrences(names, name) == Cardinality({k \in 1..Len(names) : names[k] = name})

\* The names the lines of the text mention in the form of one of the patterns
NamedInText ==
    {search(name_patterns[k], stext[l]) : k \in 1..Len(name_patterns), l \in 1..Len(stext)}
        \ {<<>>}

\* C22: the result is the community leader first (when given) followed by
\* each distinct speaker named in the text exactly once: no name occurs
\* twice, and the community leader is not added a second time.
C22_EachSpeakerOnce ==
    sdone =>
        /\ sleader # <<>> => (sresult # <<>> /\ sresult[1] = sleader)
        /\ \A k \in 1..Len(sresult) : Occurrences(sresult, sresult[k]) = 1
        /\ \A name \in NamedInText : Occurrences(sresult, name) = 1

\* The community leader is never added a second time, and every speaker
\* named in a text that is not empty is in the result
LeaderOnceAndNobodyLost ==
    (sdone /\ stext # <<>>) =>
        /\ sleader # <<>> => (sresult[1] = sleader /\ Occurrences(sresult, sleader) = 1)
        /\ \A name \in NamedInText : Occurrences(sresult, name) >= 1
====
